---- MODULE Spec2Model ----
(***************************************************************************)
(* Flashcard progress reconciliation and spaced-repetition scheduling of   *)
(* the fiszki study application.                                           *)
(*                                                                         *)
(* Card ids are opaque strings.  The persisted knownCards / unknownCards   *)
(* arrays are modelled as sets: every reader converts them with new Set()  *)
(* and every writer stores Array.from(set), so only membership is          *)
(* observable.  The four delta lists keep their order (they are sequences) *)
(* because updateSetsForAnswer walks them with forEach.                    *)
(* Fractional quantities are fixed-point integers: easeFactor in units of  *)
(* 1/10000, difficulty in units of 1/10.                                   *)
(***************************************************************************)
EXTENDS Integers, Sequences, FiniteSets, TLC

VARIABLES
    users,      \* persisted record of the user in private/users.json
    sessions,   \* client side: one study session per browser tab
    last,       \* what the last operation was given and what it returned
    card        \* localStorage schedule state of one flashcard

vars == <<users, sessions, last, card>>

\* Content-derived card ids of the study set.
Cards == {"A", "B", "C"}

\* The order in which the study set lists its cards.
CardOrder == <<"A", "B", "C">>

\* Ids of the old random-token scheme (they satisfy the legacy pattern).
OldRandomIds == {"mdx3k9q0abc12xyz"}

AllIds == Cards \cup OldRandomIds

Answers == {"known", "unknown", "null"}

\* No flashcard schedule is stored in localStorage.
NoCards == [progress |-> <<>>, today |-> 0]

\* A flashcardUpdates object whose four lists are empty.
EmptyUpdates == [knownAdd |-> <<>>, knownRemove |-> <<>>,
                 unknownAdd |-> <<>>, unknownRemove |-> <<>>]

Max(a, b) == IF a >= b THEN a ELSE b
Min(a, b) == IF a <= b THEN a ELSE b

\* The set of elements of a sequence.
Range(s) == {s[i] : i \in 1..Len(s)}

-----------------------------------------------------------------------------
(* Progress Reconciler: updateSetsForAnswer                                *)

\* list.forEach(id => { into.add(id); outOf.delete(id) })
RECURSIVE forEachAdd(_, _, _)
forEachAdd(list, into, outOf) ==
    IF list = <<>>
    THEN [into |-> into, outOf |-> outOf]
    ELSE forEachAdd(Tail(list), into \cup {Head(list)}, outOf \ {Head(list)})

\* list.forEach(id => { from.delete(id) })
RECURSIVE forEachDelete(_, _)
forEachDelete(list, from) ==
    IF list = <<>> THEN from ELSE forEachDelete(Tail(list), from \ {Head(list)})

\* A slip: knownAdd forgets to take the card out of the unknown set.
updateSetsForAnswerNoExclusivity(knownCards, unknownCards, flashcardUpdates) ==
    LET knownSet1   == knownCards \cup Range(flashcardUpdates.knownAdd)
        knownSet2   == forEachDelete(flashcardUpdates.knownRemove, knownSet1)
        afterUAdd   == forEachAdd(flashcardUpdates.unknownAdd, unknownCards, knownSet2)
        unknownSet4 == forEachDelete(flashcardUpdates.unknownRemove, afterUAdd.into)
    IN  [knownCards |-> afterUAdd.outOf, unknownCards |-> unknownSet4]

\* A slip: an add is skipped while the card is still in the other set.
updateSetsForAnswerSkipAdd(knownCards, unknownCards, flashcardUpdates) ==
    LET kAdd        == SelectSeq(flashcardUpdates.knownAdd,
                                 LAMBDA id : id \notin unknownCards)
        knownSet1   == knownCards \cup Range(kAdd)
        knownSet2   == forEachDelete(flashcardUpdates.knownRemove, knownSet1)
        uAdd        == SelectSeq(flashcardUpdates.unknownAdd,
                                 LAMBDA id : id \notin knownSet2)
        unknownSet3 == unknownCards \cup Range(uAdd)
        unknownSet4 == forEachDelete(flashcardUpdates.unknownRemove, unknownSet3)
    IN  [knownCards |-> knownSet2, unknownCards |-> unknownSet4]

\* A slip: knownRemove is not applied.
updateSetsForAnswerNoRemove(knownCards, unknownCards, flashcardUpdates) ==
    LET afterKAdd   == forEachAdd(flashcardUpdates.knownAdd, knownCards, unknownCards)
        afterUAdd   == forEachAdd(flashcardUpdates.unknownAdd,
                                  afterKAdd.outOf, afterKAdd.into)
        unknownSet4 == forEachDelete(flashcardUpdates.unknownRemove, afterUAdd.into)
    IN  [knownCards |-> afterUAdd.outOf, unknownCards |-> unknownSet4]

\* A slip: the unknown lists are applied before the known lists.
updateSetsForAnswerUnknownFirst(knownCards, unknownCards, flashcardUpdates) ==
    LET afterUAdd   == forEachAdd(flashcardUpdates.unknownAdd, unknownCards, knownCards)
        unknownSet2 == forEachDelete(flashcardUpdates.unknownRemove, afterUAdd.into)
        afterKAdd   == forEachAdd(flashcardUpdates.knownAdd,
                                  afterUAdd.outOf, unknownSet2)
        knownSet4   == forEachDelete(flashcardUpdates.knownRemove, afterKAdd.into)
    IN  [knownCards |-> knownSet4, unknownCards |-> afterKAdd.outOf]

updateSetsForAnswer(knownCards, unknownCards, flashcardUpdates) ==
    LET \* knownAdd: add to known, delete from unknown
        afterKAdd   == forEachAdd(flashcardUpdates.knownAdd, knownCards, unknownCards)
        \* knownRemove: delete from known
        knownSet2   == forEachDelete(flashcardUpdates.knownRemove, afterKAdd.into)
        \* unknownAdd: add to unknown, delete from known
        afterUAdd   == forEachAdd(flashcardUpdates.unknownAdd,
                                  afterKAdd.outOf, knownSet2)
        \* unknownRemove: delete from unknown
        unknownSet4 == forEachDelete(flashcardUpdates.unknownRemove, afterUAdd.into)
    IN  [knownCards |-> afterUAdd.outOf, unknownCards |-> unknownSet4]

-----------------------------------------------------------------------------
(* Session Delta Engine                                                    *)

\* A slip: knownRemove tests the previous unknown set (a copied line).
computeSessionDeltasCopied(previousKnown, previousUnknown, newKnown, newUnknown, sessionCardIds) ==
    [knownAdd      |-> SelectSeq(sessionCardIds,
                         LAMBDA id : id \notin previousKnown /\ id \in newKnown),
     knownRemove   |-> SelectSeq(sessionCardIds,
                         LAMBDA id : id \in previousUnknown /\ id \notin newKnown),
     unknownAdd    |-> SelectSeq(sessionCardIds,
                         LAMBDA id : id \notin previousUnknown /\ id \in newUnknown),
     unknownRemove |-> SelectSeq(sessionCardIds,
                         LAMBDA id : id \in previousUnknown /\ id \notin newUnknown)]

\* route.js helper: the four transitions of every session card.
computeSessionDeltas(previousKnown, previousUnknown, newKnown, newUnknown, sessionCardIds) ==
    [knownAdd      |-> SelectSeq(sessionCardIds,
                         LAMBDA id : id \notin previousKnown /\ id \in newKnown),
     knownRemove   |-> SelectSeq(sessionCardIds,
                         LAMBDA id : id \in previousKnown /\ id \notin newKnown),
     unknownAdd    |-> SelectSeq(sessionCardIds,
                         LAMBDA id : id \notin previousUnknown /\ id \in newUnknown),
     unknownRemove |-> SelectSeq(sessionCardIds,
                         LAMBDA id : id \in previousUnknown /\ id \notin newUnknown)]

\* Step B of handleCompleteSession: fold the answers into copies of the
\* previous sets, in question order.
RECURSIVE foldAnswers(_, _, _)
foldAnswers(questions, newKnown, newUnknown) ==
    IF questions = <<>>
    THEN [newKnown |-> newKnown, newUnknown |-> newUnknown]
    ELSE LET q == Head(questions) IN
         IF q.userAnswer = "known"
         THEN foldAnswers(Tail(questions),
                          newKnown \cup {q.questionId}, newUnknown \ {q.questionId})
         ELSE IF q.userAnswer = "unknown"
         THEN foldAnswers(Tail(questions),
                          newKnown \ {q.questionId}, newUnknown \cup {q.questionId})
         ELSE foldAnswers(Tail(questions), newKnown, newUnknown)

questionIds(questions) == [i \in 1..Len(questions) |-> questions[i].questionId]

\* A slip: the delta is computed for the cards answered "known" only.
handleCompleteSessionKnownOnly(questions, previousKnown, previousUnknown) ==
    LET new == foldAnswers(questions, previousKnown, previousUnknown)
        ids == questionIds(questions)
    IN  [knownAdd      |-> SelectSeq(ids,
                             LAMBDA id : id \notin previousKnown /\ id \in new.newKnown),
         knownRemove   |-> <<>>,
         unknownAdd    |-> <<>>,
         unknownRemove |-> SelectSeq(ids,
                             LAMBDA id : id \in previousUnknown
                                         /\ id \notin new.newUnknown)]

\* A slip: step B takes every answer other than "known" for "unknown".
handleCompleteSessionElseUnknown(questions, previousKnown, previousUnknown) ==
    LET taken == [i \in 1..Len(questions) |->
                     [questions[i] EXCEPT !.userAnswer =
                         IF @ = "known" THEN "known" ELSE "unknown"]]
        new == foldAnswers(taken, previousKnown, previousUnknown)
        ids == questionIds(questions)
    IN  [knownAdd      |-> SelectSeq(ids,
                             LAMBDA id : id \notin previousKnown /\ id \in new.newKnown),
         knownRemove   |-> SelectSeq(ids,
                             LAMBDA id : id \in previousKnown /\ id \notin new.newKnown),
         unknownAdd    |-> SelectSeq(ids,
                             LAMBDA id : id \notin previousUnknown
                                         /\ id \in new.newUnknown),
         unknownRemove |-> SelectSeq(ids,
                             LAMBDA id : id \in previousUnknown
                                         /\ id \notin new.newUnknown)]

\* FlashcardInterface.handleCompleteSession, steps A to C: the delta sent
\* with onCompleteSession.
handleCompleteSession(questions, previousKnown, previousUnknown) ==
    LET new == foldAnswers(questions, previousKnown, previousUnknown)
        ids == questionIds(questions)
    IN  [knownAdd      |-> SelectSeq(ids,
                             LAMBDA id : id \notin previousKnown /\ id \in new.newKnown),
         knownRemove   |-> SelectSeq(ids,
                             LAMBDA id : id \in previousKnown /\ id \notin new.newKnown),
         unknownAdd    |-> SelectSeq(ids,
                             LAMBDA id : id \notin previousUnknown
                                         /\ id \in new.newUnknown),
         unknownRemove |-> SelectSeq(ids,
                             LAMBDA id : id \in previousUnknown
                                         /\ id \notin new.newUnknown)]

-----------------------------------------------------------------------------
(* Persisted user record and client sessions                               *)

\* The record the progress endpoint creates for a study set, with an empty
\* flashcardProgress entry.  parses tells whether the file users.json that
\* holds the record is valid JSON, as saveUsers writes it.
NewUserRecord(knownCards, unknownCards) ==
    [parses         |-> TRUE,
     knownCards     |-> knownCards,
     unknownCards   |-> unknownCards,
     lastUpdated    |-> 0,
     lastAttempt    |-> 0,
     totalSessions  |-> 0,
     bestScore      |-> 0,
     averageScore   |-> 0,
     totalTimeSpent |-> 0]

\* Math.round of the quotient num / den of two integers, den > 0: the
\* nearest integer, a half rounding up.
MathRound(num, den) == (2 * num + den) \div (2 * den)

\* A slip: the average is truncated instead of rounded.
updateStudySetProgressTruncated(u, sessionStats) ==
    [u EXCEPT !.totalSessions  = u.totalSessions + 1,
              !.bestScore      = Max(u.bestScore, sessionStats.score),
              !.averageScore   = (u.averageScore * u.totalSessions + sessionStats.score)
                                     \div (u.totalSessions + 1),
              !.totalTimeSpent = u.totalTimeSpent + sessionStats.totalTime,
              !.lastAttempt    = u.totalSessions + 1]

\* A slip: bestScore takes the score of the latest session.
updateStudySetProgressLastScore(u, sessionStats) ==
    LET previousSessions == u.totalSessions
        previousAverage  == u.averageScore
        totalSessions    == previousSessions + 1
    IN  [u EXCEPT !.totalSessions  = totalSessions,
                  !.bestScore      = sessionStats.score,
                  !.averageScore   = MathRound(previousAverage * previousSessions
                                                   + sessionStats.score,
                                               totalSessions),
                  !.totalTimeSpent = u.totalTimeSpent + sessionStats.totalTime,
                  !.lastAttempt    = totalSessions]

\* POST /api/auth/progress, "Update progress with new session stats".
\* Time stamps are the ordinal of the request that wrote them.
updateStudySetProgress(u, sessionStats) ==
    LET previousSessions == u.totalSessions
        previousAverage  == u.averageScore
        totalSessions    == previousSessions + 1
    IN  [u EXCEPT !.totalSessions  = totalSessions,
                  !.bestScore      = Max(u.bestScore, sessionStats.score),
                  !.averageScore   = MathRound(previousAverage * previousSessions
                                                   + sessionStats.score,
                                               totalSessions),
                  !.totalTimeSpent = u.totalTimeSpent + sessionStats.totalTime,
                  !.lastAttempt    = totalSessions]

\* studySetStorage.updateStats on the stats object of a stored study set.
updateStats(stats, sessionStats) ==
    LET sessionCount == stats.totalSessions + 1
        currentAvg   == stats.averageScore
    IN  [stats EXCEPT
            !.totalSessions  = sessionCount,
            !.totalTimeSpent = stats.totalTimeSpent + sessionStats.totalTime,
            !.averageScore   = MathRound(currentAvg * (sessionCount - 1)
                                             + sessionStats.score,
                                         sessionCount),
            !.bestScore      = IF sessionStats.score > stats.bestScore
                               THEN sessionStats.score ELSE stats.bestScore]

\* The legacy-id test of the progress handler on the persisted ids.
hasOldIds(knownCards, unknownCards) ==
    \E id \in knownCards \cup unknownCards : id \in OldRandomIds

\* migrateFlashcardIds: empty arrays either way; migrated tells whether the
\* study set's CSV file could be read.
migrateFlashcardIds(csvReadable) ==
    [knownCards |-> {}, unknownCards |-> {}, migrated |-> csvReadable]

\* A slip: the delta is applied to empty sets instead of the persisted ones.
updateFlashcardProgressFromEmpty(u, flashcardUpdates, csvReadable) ==
    LET updatedSets == updateSetsForAnswer({}, {}, flashcardUpdates)
    IN  [u EXCEPT !.knownCards   = updatedSets.knownCards,
                  !.unknownCards = updatedSets.unknownCards,
                  !.lastUpdated  = u.totalSessions]

\* POST /api/auth/progress, "Handle flashcard updates if provided".
updateFlashcardProgress(u, flashcardUpdates, csvReadable) ==
    LET migrationResult == migrateFlashcardIds(csvReadable)
        useMigrated     == /\ hasOldIds(u.knownCards, u.unknownCards)
                           /\ migrationResult.migrated
        knownCards      == IF useMigrated THEN migrationResult.knownCards
                                          ELSE u.knownCards
        unknownCards    == IF useMigrated THEN migrationResult.unknownCards
                                          ELSE u.unknownCards
        updatedSets     == updateSetsForAnswer(knownCards, unknownCards, flashcardUpdates)
    IN  [u EXCEPT !.knownCards   = updatedSets.knownCards,
                  !.unknownCards = updatedSets.unknownCards,
                  !.lastUpdated  = u.totalSessions]

\* A slip: the flashcard branch runs whether or not the body carries
\* flashcardUpdates.
progressPOSTAlwaysFlashcards(u, body, csvReadable) ==
    updateFlashcardProgress(updateStudySetProgress(u, body.sessionStats),
                            body.flashcardUpdates, csvReadable)

\* The user record an accepted progress request saves: the statistics
\* update, then the flashcard update when the body carries flashcardUpdates.
progressPOST(u, body, csvReadable) ==
    LET withStats == updateStudySetProgress(u, body.sessionStats)
    IN  IF body.hasFlashcardUpdates
        THEN updateFlashcardProgress(withStats, body.flashcardUpdates, csvReadable)
        ELSE withStats

\* Sequences without repetition over a set of ids.
InjectiveSeqs(S) ==
    UNION {{q \in [1..n -> S] : \A i, j \in 1..n : q[i] = q[j] => i = j}
           : n \in 0..Cardinality(S)}

\* Session questions over the cards `ids`, each with one of `answers`.
SessionQuestions(ids, answers) ==
    UNION {[1..Len(q) -> answers] \X {q} : q \in InjectiveSeqs(ids)}

MakeQuestions(pair) ==
    [i \in 1..Len(pair[2]) |-> [questionId |-> pair[2][i], userAnswer |-> pair[1][i]]]

\* The answer a session holds for a card id ("none" when the card is not
\* in the session).
AnswerOf(questions, id) ==
    IF \E i \in 1..Len(questions) : questions[i].questionId = id
    THEN (CHOOSE q \in Range(questions) : q.questionId = id).userAnswer
    ELSE "none"

-----------------------------------------------------------------------------
(* SpecDelta: the delta engine and the reconciler as pure functions.       *)
(* Init draws the prior sets and the session; the delta is computed from   *)
(* those prior sets and applied to them.                                   *)

InitDelta ==
    /\ \E K \in SUBSET Cards, U \in SUBSET Cards,
          p \in SessionQuestions(Cards, Answers) :
          /\ users = NewUserRecord(K, U)
          /\ sessions = [s \in {"s1"} |->
                          [pc               |-> "answered",
                           questions        |-> MakeQuestions(p),
                           previousKnown    |-> K,
                           previousUnknown  |-> U,
                           flashcardUpdates |-> EmptyUpdates]]
    /\ last = [op |-> "init", helperDeltas |-> EmptyUpdates]
    /\ card = NoCards

\* handleCompleteSession builds the delta; the route helper
\* computeSessionDeltas is evaluated on the same sets.
DeltaCompute(s) ==
    /\ sessions[s].pc = "answered"
    /\ LET me  == sessions[s]
           new == foldAnswers(me.questions, me.previousKnown, me.previousUnknown)
       IN  /\ sessions' = [sessions EXCEPT
                  ![s].pc = "computed",
                  ![s].flashcardUpdates =
                      handleCompleteSession(me.questions, me.previousKnown,
                                            me.previousUnknown)]
           /\ last' = [op |-> "compute",
                       helperDeltas |->
                           computeSessionDeltas(me.previousKnown, me.previousUnknown,
                                                new.newKnown, new.newUnknown,
                                                questionIds(me.questions))]
    /\ UNCHANGED <<users, card>>

\* updateSetsForAnswer applied to the prior sets and the computed delta.
DeltaApply(s) ==
    /\ sessions[s].pc = "computed"
    /\ LET updatedSets == updateSetsForAnswer(users.knownCards, users.unknownCards,
                                              sessions[s].flashcardUpdates)
       IN  users' = [users EXCEPT !.knownCards = updatedSets.knownCards,
                                  !.unknownCards = updatedSets.unknownCards]
    /\ sessions' = [sessions EXCEPT ![s].pc = "applied"]
    /\ last' = [last EXCEPT !.op = "apply"]
    /\ UNCHANGED card

NextDelta ==
    \/ \E s \in DOMAIN sessions : DeltaCompute(s)
    \/ \E s \in DOMAIN sessions : DeltaApply(s)

SpecDelta == InitDelta /\ [][NextDelta]_vars

\* C1: for disjoint prior sets, applying the delta computed from those sets
\* leaves every classified session card in known iff it was classified
\* "known" and in unknown iff it was classified "unknown", and every other
\* id (outside the session, or never answered) with its prior membership.
RoundTripMatchesClassification ==
    \A s \in DOMAIN sessions :
        LET me == sessions[s] IN
        (me.pc = "applied" /\ me.previousKnown \cap me.previousUnknown = {}) =>
            \A id \in AllIds :
                LET a == AnswerOf(me.questions, id) IN
                /\ a \in {"known", "unknown"} =>
                      /\ (id \in users.knownCards) <=> (a = "known")
                      /\ (id \in users.unknownCards) <=> (a = "unknown")
                /\ a \notin {"known", "unknown"} =>
                      /\ (id \in users.knownCards) <=> (id \in me.previousKnown)
                      /\ (id \in users.unknownCards) <=> (id \in me.previousUnknown)

\* An applied round trip that moved A from known to unknown, B from unknown
\* to known, and left C, which is outside the session, in the known set.
RoundTripWitness ==
    /\ sessions["s1"].pc = "applied"
    /\ sessions["s1"].previousKnown = {"A", "C"}
    /\ sessions["s1"].previousUnknown = {"B"}
    /\ AnswerOf(sessions["s1"].questions, "A") = "unknown"
    /\ AnswerOf(sessions["s1"].questions, "B") = "known"
    /\ AnswerOf(sessions["s1"].questions, "C") = "none"
    /\ users.knownCards = {"B", "C"}

\* Whether a session card counts as known / unknown after the session: its
\* answer decides, and an unanswered card keeps its previous membership.
IsNowKnown(me, id) ==
    \/ AnswerOf(me.questions, id) = "known"
    \/ AnswerOf(me.questions, id) = "null" /\ id \in me.previousKnown

IsNowUnknown(me, id) ==
    \/ AnswerOf(me.questions, id) = "unknown"
    \/ AnswerOf(me.questions, id) = "null" /\ id \in me.previousUnknown

DeltaListsAsSpecified(me, d) ==
    /\ \A id \in AllIds :
          /\ id \in Range(d.knownAdd) <=>
                /\ AnswerOf(me.questions, id) # "none"
                /\ id \notin me.previousKnown /\ IsNowKnown(me, id)
          /\ id \in Range(d.knownRemove) <=>
                /\ AnswerOf(me.questions, id) # "none"
                /\ id \in me.previousKnown /\ ~IsNowKnown(me, id)
          /\ id \in Range(d.unknownAdd) <=>
                /\ AnswerOf(me.questions, id) # "none"
                /\ id \notin me.previousUnknown /\ IsNowUnknown(me, id)
          /\ id \in Range(d.unknownRemove) <=>
                /\ AnswerOf(me.questions, id) # "none"
                /\ id \in me.previousUnknown /\ ~IsNowUnknown(me, id)

IsSwapScenario(me) ==
    /\ me.previousKnown = {"A", "B"}
    /\ me.previousUnknown = {"C"}
    /\ Len(me.questions) = 2
    /\ AnswerOf(me.questions, "A") = "unknown"
    /\ AnswerOf(me.questions, "C") = "known"

SwapDelta == [knownAdd |-> <<"C">>, knownRemove |-> <<"A">>,
              unknownAdd |-> <<"A">>, unknownRemove |-> <<"C">>]

\* The four lists of a delta name no id twice in a conflicting way.
ConflictFree(d) ==
    /\ Range(d.knownAdd) \cap Range(d.unknownAdd) = {}
    /\ Range(d.knownAdd) \cap Range(d.knownRemove) = {}
    /\ Range(d.unknownAdd) \cap Range(d.unknownRemove) = {}

InNoList(d, id) ==
    id \notin Range(d.knownAdd) \cup Range(d.knownRemove)
                  \cup Range(d.unknownAdd) \cup Range(d.unknownRemove)

\* C24: whatever the previous sets (disjoint or not) and the session, the
\* delta of handleCompleteSession and the one of computeSessionDeltas have
\* no id in both knownAdd and unknownAdd and no id in both the add and the
\* remove list of one category, and a session card that was never
\* answered is in none of the four lists.
NoConflictingDelta ==
    \A s \in DOMAIN sessions :
        LET me == sessions[s] IN
        me.pc \in {"computed", "applied"} =>
            /\ ConflictFree(me.flashcardUpdates)
            /\ ConflictFree(last.helperDeltas)
            /\ \A id \in AllIds :
                  AnswerOf(me.questions, id) = "null" =>
                      /\ InNoList(me.flashcardUpdates, id)
                      /\ InNoList(last.helperDeltas, id)

\* Overlapping previous sets (A in both), A shown but never answered and
\* B, previously known, answered "unknown": the delta moves B only.
NoConflictingDeltaWitness ==
    /\ sessions["s1"].pc = "computed"
    /\ sessions["s1"].previousKnown = {"A", "B"}
    /\ sessions["s1"].previousUnknown = {"A"}
    /\ AnswerOf(sessions["s1"].questions, "A") = "null"
    /\ AnswerOf(sessions["s1"].questions, "B") = "unknown"
    /\ sessions["s1"].flashcardUpdates.knownRemove = <<"B">>
    /\ sessions["s1"].flashcardUpdates.unknownAdd = <<"B">>
    /\ sessions["s1"].flashcardUpdates.knownAdd = <<>>
    /\ sessions["s1"].flashcardUpdates.unknownRemove = <<>>

\* C9: the delta of handleCompleteSession, and the one of the route helper
\* computeSessionDeltas, list only session cards; an id is in knownAdd iff
\* it was not known and is known now, in knownRemove iff it was known and
\* is not known now, and the same for the unknown lists.  For known = {A,B},
\* unknown = {C} and the session A -> unknown, C -> known the delta is
\* knownAdd [C], knownRemove [A], unknownAdd [A], unknownRemove [C] and
\* applying it gives known = {B,C}, unknown = {A}.
DeltaContent ==
    \A s \in DOMAIN sessions :
        LET me == sessions[s] IN
        me.pc \in {"computed", "applied"} =>
            /\ DeltaListsAsSpecified(me, me.flashcardUpdates)
            /\ DeltaListsAsSpecified(me, last.helperDeltas)
            /\ IsSwapScenario(me) =>
                  /\ me.flashcardUpdates = SwapDelta
                  /\ last.helperDeltas = SwapDelta
                  /\ me.pc = "applied" =>
                        /\ users.knownCards = {"B", "C"}
                        /\ users.unknownCards = {"A"}

\* The swap scenario, computed and applied.
DeltaContentWitness ==
    /\ sessions["s1"].pc = "applied"
    /\ IsSwapScenario(sessions["s1"])
    /\ sessions["s1"].flashcardUpdates = SwapDelta

-----------------------------------------------------------------------------
(* SpecApply: updateSetsForAnswer on arbitrary sets and arbitrary deltas,  *)
(* applied once and then once more with the same delta.                    *)

\* The largest number of ids a request's four delta lists hold together.
MaxDeltaIds == 3

SeqsUpTo(S, n) == UNION {[1..k -> S] : k \in 0..n}

\* Every flashcardUpdates object over the ids S whose four lists together
\* hold at most n ids (an id may repeat, within a list and across lists).
DeltasUpTo(S, n) ==
    {[knownAdd      |-> SubSeq(x[1], 1, x[2]),
      knownRemove   |-> SubSeq(x[1], x[2] + 1, x[3]),
      unknownAdd    |-> SubSeq(x[1], x[3] + 1, x[4]),
      unknownRemove |-> SubSeq(x[1], x[4] + 1, Len(x[1]))] :
        x \in {y \in SeqsUpTo(S, n) \X (0..n) \X (0..n) \X (0..n) :
                  y[2] <= y[3] /\ y[3] <= y[4] /\ y[4] <= Len(y[1])}}

RequestDeltas == DeltasUpTo(Cards, MaxDeltaIds)

InitApply ==
    /\ \E K \in SUBSET Cards, U \in SUBSET Cards : users = NewUserRecord(K, U)
    /\ sessions = <<>>
    /\ last = [op |-> "init", startDisjoint |-> users.knownCards \cap users.unknownCards = {},
               flashcardUpdates |-> EmptyUpdates,
               once |-> [knownCards |-> users.knownCards,
                         unknownCards |-> users.unknownCards]]
    /\ card = NoCards

\* updateSetsForAnswer with a delta of the caller's choosing.
ApplyOnce ==
    /\ last.op = "init"
    /\ \E flashcardUpdates \in RequestDeltas :
          LET updatedSets == updateSetsForAnswer(users.knownCards, users.unknownCards,
                                                flashcardUpdates)
          IN  /\ users' = [users EXCEPT !.knownCards = updatedSets.knownCards,
                                        !.unknownCards = updatedSets.unknownCards]
              /\ last' = [last EXCEPT !.op = "once",
                                      !.flashcardUpdates = flashcardUpdates,
                                      !.once = updatedSets]
    /\ UNCHANGED <<sessions, card>>

\* updateSetsForAnswer once more, on the result and with the same delta.
ApplyAgain ==
    /\ last.op = "once"
    /\ LET updatedSets == updateSetsForAnswer(users.knownCards, users.unknownCards,
                                              last.flashcardUpdates)
       IN  users' = [users EXCEPT !.knownCards = updatedSets.knownCards,
                                  !.unknownCards = updatedSets.unknownCards]
    /\ last' = [last EXCEPT !.op = "twice"]
    /\ UNCHANGED <<sessions, card>>

\* The caller goes on to another delta.
ApplyForget ==
    /\ last.op = "twice"
    /\ last' = [last EXCEPT !.op = "init", !.flashcardUpdates = EmptyUpdates,
                            !.once = [knownCards |-> users.knownCards,
                                      unknownCards |-> users.unknownCards]]
    /\ UNCHANGED <<users, sessions, card>>

NextApply == ApplyOnce \/ ApplyAgain \/ ApplyForget

SpecApply == InitApply /\ [][NextApply]_vars

\* C2: starting from disjoint sets, after updateSetsForAnswer calls with
\* arbitrary deltas no card id is in both knownCards and unknownCards.
\* (Init draws every disjoint pair, so one arbitrary call covers every
\* call of a longer sequence.)
MutualExclusivity ==
    last.startDisjoint => users.knownCards \cap users.unknownCards = {}

\* A delta that lists one id in knownAdd and in unknownAdd was applied to
\* disjoint sets that were not empty.
MutualExclusivityWitness ==
    /\ last.op = "once"
    /\ last.startDisjoint
    /\ Range(last.flashcardUpdates.knownAdd)
         \cap Range(last.flashcardUpdates.unknownAdd) # {}
    /\ users.knownCards # {}
    /\ users.unknownCards # {}

\* C3: for any sets and any delta, applying updateSetsForAnswer with the
\* delta a second time gives the known set and the unknown set of the
\* first application.
DeltaIdempotent ==
    last.op = "twice" =>
        /\ users.knownCards = last.once.knownCards
        /\ users.unknownCards = last.once.unknownCards

\* A delta that changed both sets on its first application was applied a
\* second time.
DeltaIdempotentWitness ==
    /\ last.op = "twice"
    /\ last.flashcardUpdates.knownAdd # <<>>
    /\ last.flashcardUpdates.unknownRemove # <<>>
    /\ "A" \in users.knownCards
    /\ ~last.startDisjoint

\* The result of the four passes written with the lists as sets.
ApplyAsSets(knownCards, unknownCards, d) ==
    [knownCards   |-> ((knownCards \cup Range(d.knownAdd)) \ Range(d.knownRemove))
                          \ Range(d.unknownAdd),
     unknownCards |-> ((unknownCards \ Range(d.knownAdd)) \cup Range(d.unknownAdd))
                          \ Range(d.unknownRemove)]

\* C25: the lists of a delta are applied in the order knownAdd,
\* knownRemove, unknownAdd, unknownRemove, so the result depends on the
\* lists as sets only; an id in both knownAdd and unknownAdd ends in the
\* unknown set only, and an id in both knownAdd and knownRemove ends
\* outside the known set.
ApplyOrderFixed ==
    [][(last.op = "init" /\ last'.op = "once") =>
          LET d == last'.flashcardUpdates IN
          /\ users'.knownCards =
                ApplyAsSets(users.knownCards, users.unknownCards, d).knownCards
          /\ users'.unknownCards =
                ApplyAsSets(users.knownCards, users.unknownCards, d).unknownCards
          /\ \A id \in Range(d.knownAdd) \cap Range(d.unknownAdd) :
                id \in users'.unknownCards /\ id \notin users'.knownCards
          /\ \A id \in Range(d.knownAdd) \cap Range(d.knownRemove) :
                id \notin users'.knownCards]_vars

\* C25 as it holds: an id in both knownAdd and unknownAdd ends in the
\* unknown set only unless unknownRemove lists it too, and then it ends in
\* neither set.
ApplyOrderFixedUnlessRemoved ==
    [][(last.op = "init" /\ last'.op = "once") =>
          LET d == last'.flashcardUpdates IN
          /\ users'.knownCards =
                ApplyAsSets(users.knownCards, users.unknownCards, d).knownCards
          /\ users'.unknownCards =
                ApplyAsSets(users.knownCards, users.unknownCards, d).unknownCards
          /\ \A id \in Range(d.knownAdd) \cap Range(d.unknownAdd) :
                /\ id \notin users'.knownCards
                /\ id \in users'.unknownCards <=> id \notin Range(d.unknownRemove)
          /\ \A id \in Range(d.knownAdd) \cap Range(d.knownRemove) :
                id \notin users'.knownCards]_vars

\* A delta with A in knownAdd and in unknownAdd and B in knownAdd, B
\* listed before A, was applied: A is unknown only, B known.
ApplyOrderFixedWitness ==
    /\ last.op = "once"
    /\ last.flashcardUpdates.knownAdd = <<"B", "A">>
    /\ last.flashcardUpdates.unknownAdd = <<"A">>
    /\ last.flashcardUpdates.knownRemove = <<>>
    /\ last.flashcardUpdates.unknownRemove = <<>>
    /\ "A" \in users.unknownCards
    /\ "A" \notin users.knownCards
    /\ "B" \in users.knownCards

-----------------------------------------------------------------------------
(* Spec: the progress endpoint, one request after the other, on a user     *)
(* record that may hold ids of the old random scheme.                      *)

\* The number of accepted progress requests a behaviour follows.
MaxRequests == 2

\* Request bodies: the statistics of the Reset Progress button, with any
\* flashcardUpdates or with none.
ProgressBodies ==
    [sessionStats        : {[score |-> 0, totalTime |-> 0]},
     hasFlashcardUpdates : {TRUE},
     flashcardUpdates    : RequestDeltas]
    \cup
    [sessionStats        : {[score |-> 0, totalTime |-> 0]},
     hasFlashcardUpdates : {FALSE},
     flashcardUpdates    : {EmptyUpdates}]

\* The ids a delta adds to one of the two sets.
AddedIds(flashcardUpdates) ==
    Range(flashcardUpdates.knownAdd) \cup Range(flashcardUpdates.unknownAdd)

NoRequest ==
    [op |-> "none", status |-> 0, hadOldIds |-> FALSE, csvReadable |-> TRUE,
     hasFlashcardUpdates |-> FALSE, addedIds |-> {}]

Init ==
    /\ \E K \in SUBSET AllIds, U \in SUBSET AllIds :
          /\ K \cap U = {}
          /\ users = NewUserRecord(K, U)
    /\ sessions = <<>>
    /\ last = NoRequest
    /\ card = NoCards

\* loadUsers and the lookup of the user: a file that cannot be parsed is
\* read as an empty database, in which no user is found.
userFound(u) == u.parses

\* An accepted request: load, update, save, 200.
PostProgress ==
    /\ userFound(users)
    /\ users.totalSessions < MaxRequests
    /\ \E body \in ProgressBodies,
          csvReadable \in IF hasOldIds(users.knownCards, users.unknownCards)
                          THEN BOOLEAN ELSE {TRUE} :
          /\ users' = progressPOST(users, body, csvReadable)
          /\ last' = [op |-> "progress", status |-> 200,
                      hadOldIds |-> hasOldIds(users.knownCards, users.unknownCards),
                      csvReadable |-> csvReadable,
                      hasFlashcardUpdates |-> body.hasFlashcardUpdates,
                      addedIds |-> IF body.hasFlashcardUpdates
                                   THEN AddedIds(body.flashcardUpdates) ELSE {}]
    /\ UNCHANGED <<sessions, card>>

\* A request turned away before the user database is loaded or changed:
\* no cookie or no userId (401), no studySetId or sessionStats (400), a
\* user id that is not in the database (404).
PostProgressRejected ==
    /\ \E status \in {401, 400, 404} :
          last' = [NoRequest EXCEPT !.op = "progress", !.status = status]
    /\ UNCHANGED <<users, sessions, card>>

\* fs.writeFile replaces the content of users.json in place: it opens the
\* file truncating it, then writes.  A failure of mkdir or of the open
\* leaves the file as it was; a failure of the write (disk full, I/O
\* error) leaves a file cut short.
saveUsersFails(u, truncated) ==
    IF truncated THEN [u EXCEPT !.parses = FALSE] ELSE u

\* saveUsers throws: the handler answers 500.
PostProgressSaveFailed ==
    /\ userFound(users)
    /\ \E truncated \in BOOLEAN : users' = saveUsersFails(users, truncated)
    /\ last' = [NoRequest EXCEPT !.op = "progress", !.status = 500]
    /\ UNCHANGED <<sessions, card>>

Next == PostProgress \/ PostProgressRejected \/ PostProgressSaveFailed

Spec == Init /\ [][Next]_vars

\* C5: whenever the persisted sets hold an id of the legacy pattern, the
\* progress handler clears both sets before it applies the delta, whether
\* or not the CSV file can be read: the saved sets hold only ids the delta
\* added.
LegacyIdsCleared ==
    (/\ last.op = "progress" /\ last.status = 200
     /\ last.hasFlashcardUpdates /\ last.hadOldIds) =>
        users.knownCards \cup users.unknownCards \subseteq last.addedIds

\* The same, for the requests during which the CSV file could be read.
LegacyIdsClearedWhenCsvReadable ==
    (/\ last.op = "progress" /\ last.status = 200
     /\ last.hasFlashcardUpdates /\ last.hadOldIds /\ last.csvReadable) =>
        users.knownCards \cup users.unknownCards \subseteq last.addedIds

\* C11: a progress request whose save fails is answered as failed and
\* leaves the persisted document as it was; an accepted request with
\* flashcardUpdates writes the statistics and the flashcard update together.
SaveAllOrNothing ==
    [][/\ (last'.op = "progress" /\ last'.status = 500) => users' = users
       /\ (last'.op = "progress" /\ last'.status = 200
             /\ last'.hasFlashcardUpdates) =>
              /\ users'.totalSessions = users.totalSessions + 1
              /\ users'.lastUpdated = users'.totalSessions]_vars

\* The part of C11 that holds: a save that fails before the file is opened
\* for writing leaves the document as it was, and every accepted request
\* with flashcardUpdates writes both updates in its one save.
SaveAllOrNothingUnlessTruncated ==
    [][/\ (last'.op = "progress" /\ last'.status = 500 /\ users'.parses) =>
              users' = users
       /\ (last'.op = "progress" /\ last'.status = 200
             /\ last'.hasFlashcardUpdates) =>
              /\ users'.totalSessions = users.totalSessions + 1
              /\ users'.lastUpdated = users'.totalSessions]_vars

-----------------------------------------------------------------------------
(* SpecStats: the statistics of completed sessions, recorded by the        *)
(* progress endpoint (requests without flashcardUpdates) or by             *)
(* studySetStorage.updateStats in localStorage.                            *)

\* The number of sessions a behaviour records.
MaxSessions == 3

\* Session scores (percentages) and session durations in seconds.
Scores == {0, 33, 50, 80, 100}
Times == {0, 30}

StatsOf(u) ==
    [totalSessions  |-> u.totalSessions,
     bestScore      |-> u.bestScore,
     averageScore   |-> u.averageScore,
     totalTimeSpent |-> u.totalTimeSpent]

InitStats ==
    /\ users = NewUserRecord({}, {})
    /\ sessions = [stats |-> StatsOf(NewUserRecord({}, {}))]
    /\ \E recorder \in {"endpoint", "localStorage"} :
          last = [op |-> "none", status |-> 0, recorder |-> recorder,
                  before |-> StatsOf(users), sessionStats |-> [score |-> 0, totalTime |-> 0]]
    /\ card = NoCards

\* The progress endpoint records a completed session.
PostSessionStats ==
    /\ last.recorder = "endpoint"
    /\ users.totalSessions < MaxSessions
    /\ \E score \in Scores, totalTime \in Times :
          LET body == [sessionStats |-> [score |-> score, totalTime |-> totalTime],
                       hasFlashcardUpdates |-> FALSE,
                       flashcardUpdates |-> EmptyUpdates]
          IN  /\ users' = progressPOST(users, body, TRUE)
              /\ last' = [last EXCEPT !.op = "progress", !.status = 200,
                                      !.before = StatsOf(users),
                                      !.sessionStats = body.sessionStats]
    /\ UNCHANGED <<sessions, card>>

\* studySetStorage.updateStats records a completed session.
LocalUpdateStats ==
    /\ last.recorder = "localStorage"
    /\ sessions.stats.totalSessions < MaxSessions
    /\ \E score \in Scores, totalTime \in Times :
          LET sessionStats == [score |-> score, totalTime |-> totalTime]
          IN  /\ sessions' = [sessions EXCEPT !.stats = updateStats(@, sessionStats)]
              /\ last' = [last EXCEPT !.op = "updateStats", !.status = 200,
                                      !.before = sessions.stats,
                                      !.sessionStats = sessionStats]
    /\ UNCHANGED <<users, card>>

NextStats == PostSessionStats \/ LocalUpdateStats

SpecStats == InitStats /\ [][NextStats]_vars

\* a is num / den rounded to the nearest integer, a half rounding up.
IsRounded(a, num, den) == 2 * a * den <= 2 * num + den /\ 2 * num + den < 2 * (a + 1) * den

RecordedStats == IF last.recorder = "endpoint" THEN StatsOf(users) ELSE sessions.stats

\* C8: every recorded session raises totalSessions by exactly 1 and sets
\* averageScore to round((previous average * previous count + score) /
\* (previous count + 1)); 2 sessions at average 80 and a score of 100 give
\* 3 sessions at average 87; a first session gives its own score.
IncrementalAverage ==
    last.op \in {"progress", "updateStats"} =>
        LET now == RecordedStats
            was == last.before
            score == last.sessionStats.score
        IN  /\ now.totalSessions = was.totalSessions + 1
            /\ IsRounded(now.averageScore,
                         was.averageScore * was.totalSessions + score,
                         was.totalSessions + 1)
            /\ (was.totalSessions = 2 /\ was.averageScore = 80 /\ score = 100) =>
                  (now.totalSessions = 3 /\ now.averageScore = 87)
            /\ was.totalSessions = 0 => now.averageScore = score

\* The endpoint recorded a third session of score 100 on two sessions that
\* averaged 80.
IncrementalAverageWitness ==
    /\ last.op = "progress"
    /\ last.before.totalSessions = 2
    /\ last.before.averageScore = 80
    /\ last.sessionStats.score = 100
    /\ users.averageScore = 87

-----------------------------------------------------------------------------
(* SpecSched: the schedule state of one flashcard under reviews.           *)
(* easeFactor is held in units of 1/10000 and difficulty in tenths; days   *)
(* are counted from the day the card was created; -1 stands for null.      *)

\* The number of reviews and of days a behaviour follows.
MaxReviews == 4
MaxDay == 2

\* Seconds between showing a card and the swipe (Math.floor of the
\* elapsed time, 0 for an answer within the first second).
ResponseTimes == {0, 1, 5, 12, 30}

MinEaseFactor == 13000
MaxEaseFactor == 25000

\* flashcardStorage.getCardProgress for a card that has no stored entry.
DefaultCardProgress ==
    [timesReviewed        |-> 0,
     timesCorrect         |-> 0,
     difficulty           |-> 5,
     lastReviewed         |-> -1,
     nextReview           |-> -1,
     consecutiveCorrect   |-> 0,
     consecutiveIncorrect |-> 0,
     easeFactor           |-> 25000,
     interval             |-> 1]

\* Five times the response quality: 5 - responseTime / 5 clamped to 0..5
\* when a response time was measured, the default quality 3 otherwise.
responseQuality5(responseTime) ==
    IF responseTime > 0 THEN Max(0, Min(25, 25 - responseTime)) ELSE 15

\* A slip: the closing clamp of the ease factor is missing.
calculateSpacedRepetitionNoClamp(cardProgress, isCorrect, responseTime) ==
    IF isCorrect
    THEN LET d5 == 25 - responseQuality5(responseTime)
         IN  [easeFactor |-> cardProgress.easeFactor + (1000 - d5 * (160 + d5 * 8)),
              interval   |-> IF cardProgress.interval = 1 THEN 6
                             ELSE MathRound(cardProgress.interval
                                                * cardProgress.easeFactor, 10000)]
    ELSE [easeFactor |-> Max(MinEaseFactor, cardProgress.easeFactor - 2000),
          interval   |-> 1]

\* A slip: a failed recall keeps the interval.
calculateSpacedRepetitionNoReset(cardProgress, isCorrect, responseTime) ==
    LET d5  == 25 - responseQuality5(responseTime)
        raw == IF isCorrect
               THEN cardProgress.easeFactor + (1000 - d5 * (160 + d5 * 8))
               ELSE Max(MinEaseFactor, cardProgress.easeFactor - 2000)
    IN  [easeFactor |-> Max(MinEaseFactor, Min(MaxEaseFactor, raw)),
         interval   |-> IF isCorrect /\ cardProgress.interval = 1 THEN 6
                        ELSE IF isCorrect
                        THEN MathRound(cardProgress.interval * cardProgress.easeFactor,
                                       10000)
                        ELSE cardProgress.interval]

\* A slip: the interval is multiplied by the ease factor after this
\* review's adjustment.
calculateSpacedRepetitionAdjustedFirst(cardProgress, isCorrect, responseTime) ==
    LET d5       == 25 - responseQuality5(responseTime)
        raw      == IF isCorrect
                    THEN cardProgress.easeFactor + (1000 - d5 * (160 + d5 * 8))
                    ELSE Max(MinEaseFactor, cardProgress.easeFactor - 2000)
        adjusted == Max(MinEaseFactor, Min(MaxEaseFactor, raw))
    IN  [easeFactor |-> adjusted,
         interval   |-> IF isCorrect
                        THEN IF cardProgress.interval = 1 THEN 6
                             ELSE MathRound(cardProgress.interval * adjusted, 10000)
                        ELSE 1]

\* calculateSpacedRepetition (modified SM-2).  With d = 5 - responseQuality
\* the adjustment 0.1 - d * (0.08 + d * 0.02) is, in units of 1/10000 and
\* with d5 = 5 * d, 1000 - d5 * (160 + d5 * 8).
calculateSpacedRepetition(cardProgress, isCorrect, responseTime) ==
    LET d5       == 25 - responseQuality5(responseTime)
        interval == IF isCorrect
                    THEN IF cardProgress.interval = 1 THEN 6
                         ELSE MathRound(cardProgress.interval * cardProgress.easeFactor,
                                        10000)
                    ELSE 1
        raw      == IF isCorrect
                    THEN cardProgress.easeFactor + (1000 - d5 * (160 + d5 * 8))
                    ELSE Max(MinEaseFactor, cardProgress.easeFactor - 2000)
    IN  [easeFactor |-> Max(MinEaseFactor, Min(MaxEaseFactor, raw)),
         interval   |-> interval]

\* A slip: a review leaves the streak of the other kind as it is.
updateCardProgressKeepStreak(currentProgress, isCorrect, responseTime, today) ==
    LET counted ==
            IF isCorrect
            THEN [currentProgress EXCEPT
                     !.timesReviewed      = @ + 1,
                     !.lastReviewed       = today,
                     !.timesCorrect       = @ + 1,
                     !.consecutiveCorrect = @ + 1,
                     !.difficulty         =
                         IF currentProgress.consecutiveCorrect + 1 >= 3
                         THEN Max(0, @ - 1) ELSE @]
            ELSE [currentProgress EXCEPT
                     !.timesReviewed        = @ + 1,
                     !.lastReviewed         = today,
                     !.consecutiveIncorrect = @ + 1,
                     !.difficulty           = Min(10, @ + 2)]
        scheduleResult == calculateSpacedRepetition(counted, isCorrect, responseTime)
    IN  [counted EXCEPT !.easeFactor = scheduleResult.easeFactor,
                        !.interval   = scheduleResult.interval,
                        !.nextReview = today + scheduleResult.interval]

\* A slip: the lowered difficulty is not kept at 0 or above.
updateCardProgressNoFloor(currentProgress, isCorrect, responseTime, today) ==
    LET counted ==
            IF isCorrect
            THEN [currentProgress EXCEPT
                     !.timesReviewed        = @ + 1,
                     !.lastReviewed         = today,
                     !.timesCorrect         = @ + 1,
                     !.consecutiveCorrect   = @ + 1,
                     !.consecutiveIncorrect = 0,
                     !.difficulty           =
                         IF currentProgress.consecutiveCorrect + 1 >= 3
                         THEN @ - 1 ELSE @]
            ELSE [currentProgress EXCEPT
                     !.timesReviewed        = @ + 1,
                     !.lastReviewed         = today,
                     !.consecutiveCorrect   = 0,
                     !.consecutiveIncorrect = @ + 1,
                     !.difficulty           = Min(10, @ + 2)]
        scheduleResult == calculateSpacedRepetition(counted, isCorrect, responseTime)
    IN  [counted EXCEPT !.easeFactor = scheduleResult.easeFactor,
                        !.interval   = scheduleResult.interval,
                        !.nextReview = today + scheduleResult.interval]

\* A slip: the next review date is the review date itself.
updateCardProgressDueAtOnce(currentProgress, isCorrect, responseTime, today) ==
    LET counted ==
            IF isCorrect
            THEN [currentProgress EXCEPT
                     !.timesReviewed        = @ + 1,
                     !.lastReviewed         = today,
                     !.timesCorrect         = @ + 1,
                     !.consecutiveCorrect   = @ + 1,
                     !.consecutiveIncorrect = 0,
                     !.difficulty           =
                         IF currentProgress.consecutiveCorrect + 1 >= 3
                         THEN Max(0, @ - 1) ELSE @]
            ELSE [currentProgress EXCEPT
                     !.timesReviewed        = @ + 1,
                     !.lastReviewed         = today,
                     !.consecutiveCorrect   = 0,
                     !.consecutiveIncorrect = @ + 1,
                     !.difficulty           = Min(10, @ + 2)]
        scheduleResult == calculateSpacedRepetition(counted, isCorrect, responseTime)
    IN  [counted EXCEPT !.easeFactor = scheduleResult.easeFactor,
                        !.interval   = scheduleResult.interval,
                        !.nextReview = today]

\* flashcardStorage.updateCardProgress on the stored (or default) progress
\* of the card, on day `today`.
updateCardProgress(currentProgress, isCorrect, responseTime, today) ==
    LET counted ==
            IF isCorrect
            THEN [currentProgress EXCEPT
                     !.timesReviewed        = @ + 1,
                     !.lastReviewed         = today,
                     !.timesCorrect         = @ + 1,
                     !.consecutiveCorrect   = @ + 1,
                     !.consecutiveIncorrect = 0,
                     !.difficulty           =
                         IF currentProgress.consecutiveCorrect + 1 >= 3
                         THEN Max(0, @ - 1) ELSE @]
            ELSE [currentProgress EXCEPT
                     !.timesReviewed        = @ + 1,
                     !.lastReviewed         = today,
                     !.consecutiveCorrect   = 0,
                     !.consecutiveIncorrect = @ + 1,
                     !.difficulty           = Min(10, @ + 2)]
        scheduleResult == calculateSpacedRepetition(counted, isCorrect, responseTime)
    IN  [counted EXCEPT !.easeFactor = scheduleResult.easeFactor,
                        !.interval   = scheduleResult.interval,
                        !.nextReview = today + scheduleResult.interval]

InitSched ==
    /\ users = NewUserRecord({}, {})
    /\ sessions = <<>>
    /\ last = [op |-> "none", isCorrect |-> FALSE, before |-> DefaultCardProgress]
    /\ card = [progress |-> [id \in {"A"} |-> DefaultCardProgress], today |-> 0]

\* The stored progress of the card the scheduler specification follows.
TheCard == card.progress["A"]

\* A swipe on the card: left is a correct review, right an incorrect one.
Review ==
    /\ TheCard.timesReviewed < MaxReviews
    /\ \E isCorrect \in BOOLEAN, responseTime \in ResponseTimes :
          /\ card' = [card EXCEPT !.progress["A"] =
                         updateCardProgress(@, isCorrect, responseTime, card.today)]
          /\ last' = [op |-> "review", isCorrect |-> isCorrect,
                      before |-> TheCard]
    /\ UNCHANGED <<users, sessions>>

\* Midnight.
DayPasses ==
    /\ card.today < MaxDay
    /\ card' = [card EXCEPT !.today = @ + 1]
    /\ last' = [last EXCEPT !.op = "day"]
    /\ UNCHANGED <<users, sessions>>

NextSched == Review \/ DayPasses

SpecSched == InitSched /\ [][NextSched]_vars

\* C6: from the default state, after any sequence of correct and incorrect
\* reviews with any response times, 1.3 <= easeFactor <= 2.5 and
\* interval >= 1.
SchedulerBounds ==
    /\ TheCard.easeFactor >= 13000
    /\ TheCard.easeFactor <= 25000
    /\ TheCard.interval >= 1

\* Reviews drove the ease factor to its floor while the interval grew.
SchedulerBoundsWitness ==
    /\ TheCard.timesReviewed >= 3
    /\ TheCard.easeFactor = 13000
    /\ TheCard.interval > 6

\* C7: an incorrect review sets interval to 1 whatever the prior interval
\* and the response time, and lowers easeFactor by 0.2, but not below 1.3.
IncorrectResets ==
    (last.op = "review" /\ ~last.isCorrect) =>
        /\ TheCard.interval = 1
        /\ last.before.easeFactor - 2000 >= 13000 =>
              TheCard.easeFactor = last.before.easeFactor - 2000
        /\ last.before.easeFactor - 2000 < 13000 =>
              TheCard.easeFactor = 13000

\* An incorrect review of a card whose interval had grown past 6 days and
\* whose ease factor was less than 0.2 above the floor.
IncorrectResetsWitness ==
    /\ last.op = "review"
    /\ ~last.isCorrect
    /\ last.before.interval > 6
    /\ last.before.easeFactor < 15000
    /\ TheCard.interval = 1

\* C20: a correct review turns interval 1 into 6 and any other interval
\* into round(interval * easeFactor), with the ease factor held before the
\* review; so the interval does not decrease on a correct review, and the
\* first correct review after an incorrect one gives 6.
IntervalGrowth ==
    (last.op = "review" /\ last.isCorrect) =>
        /\ last.before.interval = 1 => TheCard.interval = 6
        /\ last.before.interval # 1 =>
              IsRounded(TheCard.interval,
                        last.before.interval * last.before.easeFactor, 10000)
        /\ TheCard.interval >= last.before.interval
        /\ last.before.consecutiveIncorrect > 0 => TheCard.interval = 6

\* A second correct review in a row, answered after 12 seconds like the
\* first: the interval grows from 6 to round(6 * 2.2928) = 14.
IntervalGrowthWitness ==
    /\ last.op = "review"
    /\ last.isCorrect
    /\ last.before.interval = 6
    /\ last.before.easeFactor = 22928
    /\ TheCard.interval = 14
    /\ TheCard.consecutiveCorrect = 2

\* C16: consecutiveCorrect and consecutiveIncorrect are never both above
\* 0; a correct review adds 1 to consecutiveCorrect and sets
\* consecutiveIncorrect to 0, an incorrect review does the opposite.
StreakExclusivity ==
    /\ ~(TheCard.consecutiveCorrect > 0 /\ TheCard.consecutiveIncorrect > 0)
    /\ (last.op = "review" /\ last.isCorrect) =>
          /\ TheCard.consecutiveCorrect = last.before.consecutiveCorrect + 1
          /\ TheCard.consecutiveIncorrect = 0
    /\ (last.op = "review" /\ ~last.isCorrect) =>
          /\ TheCard.consecutiveIncorrect = last.before.consecutiveIncorrect + 1
          /\ TheCard.consecutiveCorrect = 0

\* A correct review that ended a streak of two incorrect ones.
StreakExclusivityWitness ==
    /\ last.op = "review"
    /\ last.isCorrect
    /\ last.before.consecutiveIncorrect = 2
    /\ TheCard.consecutiveCorrect = 1
    /\ TheCard.consecutiveIncorrect = 0

-----------------------------------------------------------------------------
(* SpecSession: one flashcard session of the study page, from startSession *)
(* through the swipes to the completion chain                              *)
(* FlashcardInterface.handleCompleteSession -> page handleCompleteSession  *)
(* -> useSessions.completeSession -> useAuth.updateProgress -> POST.       *)

\* Response times of the swipes of a session, in seconds.
SwipeResponseTimes == {0, 5}

\* Right after startSession no question has an answer.
NewQuestions(ids) ==
    [i \in 1..Len(ids) |-> [questionId |-> ids[i], userAnswer |-> "null"]]

\* calculateSessionStats: the share of questions answered "known", in
\* percent.
calculateSessionStats(questions) ==
    LET totalQuestions == Len(questions)
        correctAnswers == Cardinality({i \in 1..totalQuestions :
                                           questions[i].userAnswer = "known"})
    IN  [score |-> IF totalQuestions > 0
                   THEN MathRound(correctAnswers * 100, totalQuestions) ELSE 0,
         correctAnswers |-> correctAnswers,
         totalQuestions |-> totalQuestions]

\* useSessions.completeSession builds the progress request from the
\* session alone: it declares no parameter, so the flashcardUpdates the
\* page passes are dropped and updateProgress is called with two arguments.
completeSession(questions, timeSpent, flashcardUpdates) ==
    [sessionStats        |-> [score     |-> calculateSessionStats(questions).score,
                              totalTime |-> timeSpent],
     hasFlashcardUpdates |-> FALSE,
     flashcardUpdates    |-> EmptyUpdates]

\* A slip: completeSession reports failure when the progress update failed.
completeSessionOutcomeStrict(localSaveSuccess, progressUpdateSuccess) ==
    IF localSaveSuccess /\ progressUpdateSuccess THEN "success" ELSE "failure"

\* What completeSession returns: success once the completed session was
\* saved locally, whatever updateProgress returned or threw; failure when
\* the local save failed.
completeSessionOutcome(localSaveSuccess, progressUpdateSuccess) ==
    IF localSaveSuccess THEN "success" ELSE "failure"

NoBody == [sessionStats |-> [score |-> 0, totalTime |-> 0],
           hasFlashcardUpdates |-> FALSE, flashcardUpdates |-> EmptyUpdates]

InitSession ==
    /\ \E K \in SUBSET Cards, U \in SUBSET Cards :
          /\ K \cap U = {}
          /\ users = NewUserRecord(K, U)
          /\ sessions = [s \in {"s1"} |->
                          [pc               |-> "idle",
                           questions        |-> <<>>,
                           currentCardIndex |-> 1,
                           previousKnown    |-> K,
                           previousUnknown  |-> U,
                           flashcardUpdates |-> EmptyUpdates,
                           body             |-> NoBody,
                           current          |-> FALSE,
                           completed        |-> FALSE,
                           score            |-> 0,
                           result           |-> "none"]]
    /\ last = [op |-> "init", status |-> 0]
    /\ card = [progress |-> [id \in Cards |-> DefaultCardProgress], today |-> 0]

\* startSession with the cards of the study set, shuffled and limited or
\* not.
StartSession(s) ==
    /\ sessions[s].pc = "idle"
    /\ \E ids \in InjectiveSeqs(Cards) :
          /\ ids # <<>>
          /\ sessions' = [sessions EXCEPT ![s].pc = "active",
                                          ![s].current = TRUE,
                                          ![s].questions = NewQuestions(ids),
                                          ![s].currentCardIndex = 1]
    /\ last' = [op |-> "start", status |-> 0]
    /\ UNCHANGED <<users, card>>

\* handleSwipe on the current card: the schedule of the card is updated,
\* answerQuestion stores the answer, and the interface moves to the next
\* card or, after the last card, to completion.
HandleSwipe(s) ==
    /\ sessions[s].pc = "active"
    /\ \E direction \in {"left", "right"}, responseTime \in SwipeResponseTimes :
          LET me      == sessions[s]
              i       == me.currentCardIndex
              id      == me.questions[i].questionId
              isKnown == direction = "left"
          IN  /\ card' = [card EXCEPT !.progress[id] =
                             updateCardProgress(@, isKnown, responseTime, card.today)]
              /\ sessions' = [sessions EXCEPT
                     ![s].questions[i].userAnswer =
                         IF isKnown THEN "known" ELSE "unknown",
                     ![s].currentCardIndex =
                         IF i = Len(me.questions) THEN i ELSE i + 1,
                     ![s].pc =
                         IF i = Len(me.questions) THEN "lastAnswered" ELSE "active"]
    /\ last' = [op |-> "swipe", status |-> 0]
    /\ UNCHANGED users

\* FlashcardInterface.handleCompleteSession: the delta against the cached
\* user record, handed to onCompleteSession; completeSession closes the
\* session, saves it locally and sends the progress request.  When the
\* local save fails it returns failure and the session stays current.
HandleCompleteSession(s) ==
    /\ sessions[s].pc = "lastAnswered"
    /\ \E timeSpent \in Times, localSaveSuccess \in BOOLEAN :
          LET me == sessions[s]
              flashcardUpdates == handleCompleteSession(me.questions, me.previousKnown,
                                                        me.previousUnknown)
          IN  sessions' =
                  IF localSaveSuccess
                  THEN [sessions EXCEPT
                           ![s].pc = "posting",
                           ![s].flashcardUpdates = flashcardUpdates,
                           ![s].completed = TRUE,
                           ![s].score = calculateSessionStats(me.questions).score,
                           ![s].body = completeSession(me.questions, timeSpent,
                                                       flashcardUpdates)]
                  ELSE [sessions EXCEPT
                           ![s].pc = "failed",
                           ![s].flashcardUpdates = flashcardUpdates,
                           ![s].result = completeSessionOutcome(FALSE, FALSE)]
    /\ last' = [op |-> "complete", status |-> 0]
    /\ UNCHANGED <<users, card>>

\* The progress endpoint accepts the request and saves; updateProgress
\* replaces the cached user and completeSession returns success.
SessionProgressSaved(s) ==
    /\ sessions[s].pc = "posting"
    /\ \E csvReadable \in BOOLEAN :
          /\ (~hasOldIds(users.knownCards, users.unknownCards)) => csvReadable
          /\ users' = progressPOST(users, sessions[s].body, csvReadable)
    /\ sessions' = [sessions EXCEPT ![s].pc = "completed",
                                    ![s].current = FALSE,
                                    ![s].result = completeSessionOutcome(TRUE, TRUE),
                                    ![s].previousKnown = users'.knownCards,
                                    ![s].previousUnknown = users'.unknownCards]
    /\ last' = [op |-> "post", status |-> 200]
    /\ UNCHANGED card

\* The progress request is answered with an error, or fetch throws
\* (status -1), so updateProgress returns false; completeSession logs a
\* warning, clears the current session and returns its outcome.  A save
\* that failed on the server may have cut the file short.
SessionProgressFailed(s) ==
    /\ sessions[s].pc = "posting"
    /\ \E status \in {401, 404, 500, -1}, truncated \in BOOLEAN :
          /\ truncated => status = 500
          /\ users' = saveUsersFails(users, truncated)
          /\ last' = [op |-> "post", status |-> status]
    /\ sessions' = [sessions EXCEPT ![s].pc = "completed",
                                    ![s].current = FALSE,
                                    ![s].result = completeSessionOutcome(TRUE, FALSE)]
    /\ UNCHANGED card

NextSession ==
    \/ \E s \in DOMAIN sessions : StartSession(s)
    \/ \E s \in DOMAIN sessions : HandleSwipe(s)
    \/ \E s \in DOMAIN sessions : HandleCompleteSession(s)
    \/ \E s \in DOMAIN sessions : SessionProgressSaved(s)
    \/ \E s \in DOMAIN sessions : SessionProgressFailed(s)

SpecSession == InitSession /\ [][NextSession]_vars

\* C4: once a flashcard session is completed and its progress request was
\* saved, every card answered "known" in it is in the persisted knownCards
\* and not in unknownCards, and every card answered "unknown" is in
\* unknownCards and not in knownCards.
SessionPersisted ==
    \A s \in DOMAIN sessions :
        (sessions[s].pc = "completed" /\ last.status = 200) =>
            \A id \in Cards :
                /\ AnswerOf(sessions[s].questions, id) = "known" =>
                      id \in users.knownCards /\ id \notin users.unknownCards
                /\ AnswerOf(sessions[s].questions, id) = "unknown" =>
                      id \in users.unknownCards /\ id \notin users.knownCards

\* The request of a completed session carried no delta, although the
\* interface had computed a non-empty one.
SessionDeltaDropped ==
    \E s \in DOMAIN sessions :
        /\ sessions[s].pc = "completed"
        /\ last.status = 200
        /\ sessions[s].flashcardUpdates # EmptyUpdates
        /\ ~sessions[s].body.hasFlashcardUpdates

-----------------------------------------------------------------------------
(* SpecInterleave: two sessions of one user and study set, open in two     *)
(* tabs that both cached the same persisted record.  Each tab computes     *)
(* its delta against that cached baseline; the two progress requests       *)
(* reach the endpoint one after the other, in either order.                *)

\* The subsequence of CardOrder on the cards of S.
OrderedIds(S) == SelectSeq(CardOrder, LAMBDA id : id \in S)

InitInterleave ==
    /\ \E K \in SUBSET AllIds, U \in SUBSET AllIds,
          S1 \in SUBSET Cards, S2 \in SUBSET Cards :
          /\ K \cap U = {}
          /\ S1 # {} /\ S2 # {} /\ S1 \cap S2 = {}
          /\ \E a1 \in [1..Cardinality(S1) -> Answers],
                a2 \in [1..Cardinality(S2) -> Answers] :
                /\ users = NewUserRecord(K, U)
                /\ sessions =
                      [s \in {"s1", "s2"} |->
                          [pc               |-> "answered",
                           questions        |->
                               IF s = "s1" THEN MakeQuestions(<<a1, OrderedIds(S1)>>)
                                           ELSE MakeQuestions(<<a2, OrderedIds(S2)>>),
                           previousKnown    |-> K,
                           previousUnknown  |-> U,
                           flashcardUpdates |-> EmptyUpdates]]
    /\ last = [op |-> "init", migrated |-> FALSE]
    /\ card = NoCards

\* handleCompleteSession of one tab, against the record that tab cached.
InterleaveCompute(s) ==
    /\ sessions[s].pc = "answered"
    /\ sessions' = [sessions EXCEPT
           ![s].pc = "computed",
           ![s].flashcardUpdates =
               handleCompleteSession(sessions[s].questions, sessions[s].previousKnown,
                                     sessions[s].previousUnknown)]
    /\ last' = [last EXCEPT !.op = "compute"]
    /\ UNCHANGED <<users, card>>

\* The progress endpoint handles the request of one tab, flashcardUpdates
\* included, and saves.
InterleavePost(s) ==
    /\ sessions[s].pc = "computed"
    /\ \E csvReadable \in BOOLEAN :
          LET old  == hasOldIds(users.knownCards, users.unknownCards)
              body == [sessionStats |->
                           [score |-> calculateSessionStats(sessions[s].questions).score,
                            totalTime |-> 0],
                       hasFlashcardUpdates |-> TRUE,
                       flashcardUpdates |-> sessions[s].flashcardUpdates]
          IN  /\ ~old => csvReadable
              /\ users' = progressPOST(users, body, csvReadable)
              /\ last' = [op |-> "post",
                          migrated |-> last.migrated \/ (old /\ csvReadable)]
    /\ sessions' = [sessions EXCEPT ![s].pc = "posted"]
    /\ UNCHANGED card

NextInterleave ==
    \/ \E s \in DOMAIN sessions : InterleaveCompute(s)
    \/ \E s \in DOMAIN sessions : InterleavePost(s)

SpecInterleave == InitInterleave /\ [][NextInterleave]_vars

BothPosted == \A s \in DOMAIN sessions : sessions[s].pc = "posted"

\* The persisted sets hold the cards of both sessions as classified and
\* every other id as the baseline the deltas were computed against.
MergedAsClassified ==
    \A id \in AllIds :
        LET answers == {AnswerOf(sessions[s].questions, id) : s \in DOMAIN sessions}
        IN  /\ "known" \in answers =>
                  id \in users.knownCards /\ id \notin users.unknownCards
            /\ "unknown" \in answers =>
                  id \in users.unknownCards /\ id \notin users.knownCards
            /\ answers \cap {"known", "unknown"} = {} =>
                  /\ id \in users.knownCards <=> id \in sessions["s1"].previousKnown
                  /\ id \in users.unknownCards <=> id \in sessions["s1"].previousUnknown

\* C10 as stated: after the progress updates of two sessions over disjoint
\* cards, both computed against the same baseline and applied in either
\* order, the cards of both sessions match their classification and all
\* other cards are as in the baseline.
InterleavedSessionsMerge ==
    BothPosted => MergedAsClassified

\* C10, amended: the same, provided neither request made the handler
\* replace the persisted sets by the empty migrated ones (the persisted
\* sets hold no legacy-pattern id, or the CSV file cannot be read).
InterleavedSessionsMergeWithoutMigration ==
    (BothPosted /\ ~last.migrated) => MergedAsClassified

\* Both requests are saved; one tab moved A from known to unknown, the
\* other made B known, and C, in neither session, stays unknown.
InterleavedSessionsWitness ==
    /\ BothPosted
    /\ ~last.migrated
    /\ sessions["s1"].previousKnown = {"A"}
    /\ sessions["s1"].previousUnknown = {"C"}
    /\ AnswerOf(sessions["s1"].questions, "A") = "unknown"
    /\ AnswerOf(sessions["s2"].questions, "B") = "known"
    /\ users.knownCards = {"B"}
    /\ users.unknownCards = {"A", "C"}

\* C12: when the completed session was saved locally and the progress
\* update failed or threw, completeSession returns success, the session
\* keeps its completed flag and its score, and no session is current.
LocalOutcomeRetained ==
    \A s \in DOMAIN sessions :
        (sessions[s].pc = "completed" /\ last.op = "post" /\ last.status # 200) =>
            /\ sessions[s].result = "success"
            /\ sessions[s].completed
            /\ sessions[s].score = calculateSessionStats(sessions[s].questions).score
            /\ ~sessions[s].current

\* A session of two cards, one known, whose progress request was answered
\* 500: it is completed with score 50.
LocalOutcomeRetainedWitness ==
    \E s \in DOMAIN sessions :
        /\ sessions[s].pc = "completed"
        /\ last.op = "post"
        /\ last.status = 500
        /\ Len(sessions[s].questions) = 2
        /\ sessions[s].score = 50
        /\ sessions[s].result = "success"
        /\ users.totalSessions = 0

-----------------------------------------------------------------------------
(* SpecMalformed: the progress endpoint on a users.json whose knownCards   *)
(* or unknownCards of the study set is not an array.  A persisted JSON     *)
(* value is a record: kind tells its type, items holds the elements of an  *)
(* array or the characters of a string, num the value of a number.         *)

JsValue(kind, items, num) == [kind |-> kind, items |-> items, num |-> num]

JsArray(items) == JsValue("array", items, 0)

\* What users.json may hold for knownCards or unknownCards.
PersistedValues ==
    {JsValue("missing", {}, 0), JsValue("null", {}, 0),
     JsValue("object", {}, 0),
     JsValue("string", {}, 0), JsValue("string", {"x", "y"}, 0),
     JsValue("number", {}, 0), JsValue("number", {}, 5),
     JsArray({}), JsArray({"A"}), JsArray({"B"})}

\* JavaScript truthiness: undefined, null, "" and 0 are falsy; arrays
\* (empty ones too) and objects are truthy.
truthy(v) ==
    \/ v.kind \in {"array", "object"}
    \/ v.kind = "string" /\ v.items # {}
    \/ v.kind = "number" /\ v.num # 0

\* value || []
orEmptyArray(v) == IF truthy(v) THEN v ELSE JsArray({})

\* Spread syntax and new Set(value) need an iterable: an array gives its
\* elements, a string its characters, an object or a number throws.
iterable(v) == v.kind \in {"array", "string"}

\* The flashcard branch of the handler on the raw persisted values: it
\* throws (caught, answered 500, nothing saved) or saves arrays.
flashcardBranch(u, flashcardUpdates) ==
    LET knownCards   == orEmptyArray(u.knownCards)
        unknownCards == orEmptyArray(u.unknownCards)
    IN  IF iterable(knownCards) /\ iterable(unknownCards)
        THEN LET saved == updateFlashcardProgress(
                              [u EXCEPT !.knownCards = knownCards.items,
                                        !.unknownCards = unknownCards.items],
                              flashcardUpdates, TRUE)
             IN  [throws |-> FALSE,
                  user   |-> [saved EXCEPT !.knownCards = JsArray(@),
                                           !.unknownCards = JsArray(@)]]
        ELSE [throws |-> TRUE, user |-> u]

\* Deltas of the requests sent to a malformed record.
MalformedDeltas == DeltasUpTo({"A", "B"}, 2)

InitMalformed ==
    /\ \E k \in PersistedValues, u \in PersistedValues :
          users = NewUserRecord(k, u)
    /\ sessions = <<>>
    /\ last = [op |-> "none", status |-> 0, hasFlashcardUpdates |-> FALSE,
               flashcardUpdates |-> EmptyUpdates]
    /\ card = NoCards

\* A progress request with flashcardUpdates: 200 and a save, or 500 when
\* the flashcard branch throws.
PostFlashcardUpdates ==
    /\ users.totalSessions < MaxRequests
    /\ \E flashcardUpdates \in MalformedDeltas :
          LET withStats == updateStudySetProgress(users, [score |-> 0, totalTime |-> 0])
              outcome   == flashcardBranch(withStats, flashcardUpdates)
          IN  /\ users' = IF outcome.throws THEN users ELSE outcome.user
              /\ last' = [op |-> "progress",
                          status |-> IF outcome.throws THEN 500 ELSE 200,
                          hasFlashcardUpdates |-> TRUE,
                          flashcardUpdates |-> flashcardUpdates]
    /\ UNCHANGED <<sessions, card>>

\* A progress request without flashcardUpdates leaves the flashcard entry
\* as it is.
PostStatsOnly ==
    /\ users.totalSessions < MaxRequests
    /\ users' = updateStudySetProgress(users, [score |-> 0, totalTime |-> 0])
    /\ last' = [op |-> "progress", status |-> 200, hasFlashcardUpdates |-> FALSE,
                flashcardUpdates |-> EmptyUpdates]
    /\ UNCHANGED <<sessions, card>>

NextMalformed == PostFlashcardUpdates \/ PostStatsOnly

SpecMalformed == InitMalformed /\ [][NextMalformed]_vars

\* The sets the request saves when a value that is not an array counts as
\* the empty collection.
CoercedToEmpty(v) == IF v.kind = "array" THEN v.items ELSE {}

SavedAsCoerced ==
    LET expected == updateSetsForAnswer(CoercedToEmpty(users.knownCards),
                                        CoercedToEmpty(users.unknownCards),
                                        last'.flashcardUpdates)
    IN  /\ last'.status = 200
        /\ users'.knownCards = JsArray(expected.knownCards)
        /\ users'.unknownCards = JsArray(expected.unknownCards)

\* C13: a progress update that finds a persisted knownCards or
\* unknownCards that is not a list (missing, null, an object, a string, a
\* number) treats it as the empty collection and succeeds.
MalformedTreatedAsEmpty ==
    [][(/\ last'.op = "progress" /\ last'.hasFlashcardUpdates
        /\ (users.knownCards.kind # "array" \/ users.unknownCards.kind # "array"))
       => SavedAsCoerced]_vars

\* The part of C13 that holds: falsy values (missing, null, the empty
\* string, 0) are replaced by the empty array and the request succeeds.
FalsyTreatedAsEmpty ==
    [][(/\ last'.op = "progress" /\ last'.hasFlashcardUpdates
        /\ (users.knownCards.kind # "array" \/ users.unknownCards.kind # "array")
        /\ (users.knownCards.kind = "array" \/ ~truthy(users.knownCards))
        /\ (users.unknownCards.kind = "array" \/ ~truthy(users.unknownCards)))
       => SavedAsCoerced]_vars

-----------------------------------------------------------------------------
(* SpecRecord: the record of one user with two study sets.  The study page *)
(* sends two kinds of progress requests: the one of a completed session    *)
(* (statistics only) and the one of the Reset Progress button (statistics  *)
(* {score: 0, totalTime: 0} and a delta that removes the cards the page    *)
(* shows as known and unknown).  sessions counts the completed sessions of *)
(* each study set.                                                         *)

StudySets == {"set1", "set2"}

\* Scores of the sessions completed on the study page.
RecordScores == {0, 100}

\* The body the Reset Progress button posts for the sets the page holds.
resetProgressBody(knownCards, unknownCards) ==
    [sessionStats        |-> [score |-> 0, totalTime |-> 0],
     hasFlashcardUpdates |-> TRUE,
     flashcardUpdates    |-> [knownAdd      |-> <<>>,
                              knownRemove   |-> OrderedIds(knownCards),
                              unknownAdd    |-> <<>>,
                              unknownRemove |-> OrderedIds(unknownCards)]]

\* The flashcardProgress entry of a study set.
FlashcardProgressOf(u) ==
    [knownCards |-> u.knownCards, unknownCards |-> u.unknownCards,
     lastUpdated |-> u.lastUpdated]

RequestsSoFar == users["set1"].totalSessions + users["set2"].totalSessions

InitRecord ==
    /\ \E K \in SUBSET Cards, U \in SUBSET Cards, other \in BOOLEAN :
          /\ K \cap U = {}
          /\ users = [id \in StudySets |->
                         IF id = "set1" THEN NewUserRecord(K, U)
                         ELSE IF other THEN NewUserRecord({"A"}, {"B"})
                         ELSE NewUserRecord({}, {})]
    /\ sessions = [id \in StudySets |-> 0]
    /\ last = [op |-> "none", studySetId |-> "set1", status |-> 0,
               hasFlashcardUpdates |-> FALSE, flashcardUpdates |-> EmptyUpdates]
    /\ card = NoCards

\* A session of the study set is completed and its progress request is
\* accepted.
CompleteSessionFor(id) ==
    /\ RequestsSoFar < MaxSessions
    /\ \E score \in RecordScores, timeSpent \in Times :
          LET body == [sessionStats |-> [score |-> score, totalTime |-> timeSpent],
                       hasFlashcardUpdates |-> FALSE,
                       flashcardUpdates |-> EmptyUpdates]
          IN  users' = [users EXCEPT ![id] = progressPOST(@, body, TRUE)]
    /\ sessions' = [sessions EXCEPT ![id] = @ + 1]
    /\ last' = [op |-> "session", studySetId |-> id, status |-> 200,
                hasFlashcardUpdates |-> FALSE, flashcardUpdates |-> EmptyUpdates]
    /\ UNCHANGED card

\* The Reset Progress button on the page of the study set, confirmed.  The
\* page holds the sets it loaded, which may lag behind the persisted ones.
ResetProgress(id) ==
    /\ RequestsSoFar < MaxSessions
    /\ \E knownCards \in SUBSET users[id].knownCards,
          unknownCards \in SUBSET users[id].unknownCards :
          LET body == resetProgressBody(knownCards, unknownCards)
          IN  /\ users' = [users EXCEPT ![id] = progressPOST(@, body, TRUE)]
              /\ last' = [op |-> "reset", studySetId |-> id, status |-> 200,
                          hasFlashcardUpdates |-> TRUE,
                          flashcardUpdates |-> body.flashcardUpdates]
    /\ UNCHANGED <<sessions, card>>

NextRecord ==
    \/ \E id \in StudySets : CompleteSessionFor(id)
    \/ \E id \in StudySets : ResetProgress(id)

SpecRecord == InitRecord /\ [][NextRecord]_vars

\* C14: an accepted request without flashcardUpdates leaves the
\* flashcardProgress of every study set as it was; one with
\* flashcardUpdates saves the reconciled sets of its study set, sets
\* lastUpdated of that study set and leaves the other study sets alone.
StatsOnlyWithoutUpdates ==
    [][(last'.op # "none" /\ last'.status = 200) =>
          LET me == last'.studySetId IN
          /\ \A id \in StudySets \ {me} :
                FlashcardProgressOf(users'[id]) = FlashcardProgressOf(users[id])
          /\ ~last'.hasFlashcardUpdates =>
                FlashcardProgressOf(users'[me]) = FlashcardProgressOf(users[me])
          /\ last'.hasFlashcardUpdates =>
                LET updatedSets == updateSetsForAnswer(users[me].knownCards,
                                                       users[me].unknownCards,
                                                       last'.flashcardUpdates)
                IN  /\ users'[me].knownCards = updatedSets.knownCards
                    /\ users'[me].unknownCards = updatedSets.unknownCards
                    /\ users'[me].lastUpdated = users'[me].totalSessions
                    /\ users'[me].lastUpdated # users[me].lastUpdated]_vars

\* A completed session left the flashcard entry written by an earlier
\* reset as it was: the reset was request 1, the session request 2.
StatsOnlyWithoutUpdatesWitness ==
    /\ last.op = "session"
    /\ last.studySetId = "set1"
    /\ users["set1"].totalSessions = 2
    /\ users["set1"].lastUpdated = 1
    /\ users["set1"].knownCards = {"B"}
    /\ users["set1"].unknownCards = {}

\* C15: the statistics of a study set change only through completed
\* sessions, once per session: totalSessions is the number of completed
\* sessions, and Reset Progress leaves totalSessions, averageScore,
\* bestScore and totalTimeSpent as they were.
StatsOnlyThroughSessions ==
    [][/\ \A id \in StudySets : users'[id].totalSessions = sessions'[id]
       /\ last'.op = "reset" =>
             \A id \in StudySets : StatsOf(users'[id]) = StatsOf(users[id])]_vars

\* The part of C15 that holds: a completed session counts once, and only
\* for its study set.
SessionCountsOnce ==
    [][last'.op = "session" =>
          \A id \in StudySets :
              users'[id].totalSessions =
                  users[id].totalSessions + (IF id = last'.studySetId THEN 1 ELSE 0)]_vars

-----------------------------------------------------------------------------
(* SpecReview: getCardsForReview on the stored card progress of one study  *)
(* set.  card.order is the order of the entries in the stored object       *)
(* (Object.entries), card.progress the fields of each entry that the       *)
(* selection reads.  Times are day numbers, -1 stands for null.            *)

\* new Date(0), far before day 0 of the stored time stamps.
EpochDay == -20000

\* limit = null, the default of the parameter.
NoLimit == -1

Limits == {NoLimit, 0, 1, 2}

\* Stored entries: the default-shaped ones (never reviewed, nextReview
\* null) and reviewed ones, whose nextReview lies after lastReviewed.
ReviewEntries ==
    {e \in [difficulty : {5, 7}, lastReviewed : {-1, 0, 1}, nextReview : {-1, 1, 2, 3}] :
        /\ e.lastReviewed = -1 <=> e.nextReview = -1
        /\ e.nextReview # -1 => e.nextReview > e.lastReviewed}

\* The filter: cards never scheduled or due by now.
isDue(progress, now) == progress.nextReview = -1 \/ progress.nextReview <= now

lastReviewedDate(progress) ==
    IF progress.lastReviewed # -1 THEN progress.lastReviewed ELSE EpochDay

\* The comparator of the sort: negative when a goes before b.
compareForReview(a, b) ==
    IF a.difficulty # b.difficulty
    THEN b.difficulty - a.difficulty
    ELSE lastReviewedDate(a) - lastReviewedDate(b)

\* Array.prototype.sort is stable: an entry goes behind every entry the
\* comparator does not put after it.
RECURSIVE insertSorted(_, _, _)
insertSorted(progress, sorted, id) ==
    IF sorted = <<>> THEN <<id>>
    ELSE IF compareForReview(progress[Head(sorted)], progress[id]) <= 0
    THEN <<Head(sorted)>> \o insertSorted(progress, Tail(sorted), id)
    ELSE <<id>> \o sorted

RECURSIVE sortForReview(_, _)
sortForReview(progress, ids) ==
    IF ids = <<>> THEN <<>>
    ELSE insertSorted(progress,
                      sortForReview(progress, SubSeq(ids, 1, Len(ids) - 1)),
                      ids[Len(ids)])

\* flashcardStorage.getCardsForReview: `limit ? slice(0, limit) : all`
\* takes the whole list for null and for 0.
getCardsForReview(progress, order, now, limit) ==
    LET cardsForReview ==
            sortForReview(progress,
                          SelectSeq(order, LAMBDA id : isDue(progress[id], now)))
    IN  IF limit # NoLimit /\ limit # 0
        THEN SubSeq(cardsForReview, 1, Min(limit, Len(cardsForReview)))
        ELSE cardsForReview

InitReview ==
    /\ \E order \in InjectiveSeqs(Cards) :
          \E progress \in [Range(order) -> ReviewEntries] :
              card = [progress |-> progress, order |-> order, today |-> 0]
    /\ users = NewUserRecord({}, {})
    /\ sessions = <<>>
    /\ last = [op |-> "none", limit |-> NoLimit, now |-> 0, result |-> <<>>]

GetCardsForReview ==
    /\ \E limit \in Limits :
          last' = [op |-> "getCardsForReview", limit |-> limit, now |-> card.today,
                   result |-> getCardsForReview(card.progress, card.order,
                                                card.today, limit)]
    /\ UNCHANGED <<users, sessions, card>>

NextReview == GetCardsForReview \/ DayPasses

SpecReview == InitReview /\ [][NextReview]_vars

\* The stored cards that are due at the time of the last call.
DueIds == {id \in DOMAIN card.progress :
              card.progress[id].nextReview = -1
              \/ card.progress[id].nextReview <= last.now}

\* Card x has to come before card y: it is harder, or as hard and never
\* reviewed while y was, or as hard and reviewed earlier.
StrictlyBefore(x, y) ==
    LET a == card.progress[x]
        b == card.progress[y]
    IN  \/ a.difficulty > b.difficulty
        \/ /\ a.difficulty = b.difficulty
           /\ \/ a.lastReviewed = -1 /\ b.lastReviewed # -1
              \/ a.lastReviewed # -1 /\ b.lastReviewed # -1
                 /\ a.lastReviewed < b.lastReviewed

ReviewListAsSpecified ==
    LET result == last.result IN
    /\ Range(result) \subseteq DueIds
    /\ \A i, j \in 1..Len(result) :
          i < j => result[i] # result[j] /\ ~StrictlyBefore(result[j], result[i])
    /\ last.limit = NoLimit => Range(result) = DueIds
    /\ last.limit # NoLimit =>
          /\ Len(result) = Min(last.limit, Cardinality(DueIds))
          /\ \A x \in DueIds \ Range(result), y \in Range(result) :
                ~StrictlyBefore(x, y)

\* C17: getCardsForReview returns exactly the stored cards whose nextReview
\* is null or not later than now, hardest first and, among equally hard
\* cards, least recently reviewed first with never-reviewed cards ahead;
\* with a limit it returns the first `limit` ids of that order, never more.
ReviewSelection ==
    last.op = "getCardsForReview" => ReviewListAsSpecified

\* The part of C17 that holds: the same for no limit and for limits of at
\* least 1.
ReviewSelectionPositiveLimit ==
    (last.op = "getCardsForReview" /\ last.limit # 0) => ReviewListAsSpecified

-----------------------------------------------------------------------------
(* SpecMigrate: the script migrate-flashcard-progress.js on a users.json   *)
(* with one user.  users.listed holds the ids in progress.studySets,       *)
(* users.hasFlashcardProgress tells whether the user has a                 *)
(* flashcardProgress object, users.entries the value of                    *)
(* flashcardProgress[studySetId]: missing, a number (a truthy value that   *)
(* is no object) or an object with knownCards, unknownCards, lastUpdated.  *)

\* The number of runs of the script a behaviour follows.
MaxRuns == 2

\* JSON values found for knownCards and unknownCards of an entry.
MigrationValues ==
    {JsValue("missing", {}, 0), JsValue("string", {"x", "y"}, 0),
     JsValue("object", {}, 0), JsArray({}), JsArray({"A"})}

\* lastUpdated: none (missing), a time stamp written earlier, or the time
\* stamp of the migration run.
MigrationStamps == {"none", "earlier"}

MissingEntry ==
    [kind |-> "missing", knownCards |-> JsValue("missing", {}, 0),
     unknownCards |-> JsValue("missing", {}, 0), lastUpdated |-> "none"]

NumberEntry == [MissingEntry EXCEPT !.kind = "number"]

ObjectEntries ==
    [kind : {"object"}, knownCards : MigrationValues,
     unknownCards : MigrationValues, lastUpdated : MigrationStamps]

isArray(v) == v.kind = "array"

\* A slip: a created entry gets no lastUpdated.
migrateStudySetNoTimestamp(entry) ==
    IF entry.kind = "missing"
    THEN [entry |-> [kind |-> "object", knownCards |-> JsArray({}),
                     unknownCards |-> JsArray({}), lastUpdated |-> "none"],
          modified |-> TRUE]
    ELSE IF entry.kind = "number"
    THEN [entry |-> entry, modified |-> TRUE]
    ELSE [entry |-> [entry EXCEPT
                        !.knownCards = IF isArray(@) THEN @ ELSE JsArray({}),
                        !.unknownCards = IF isArray(@) THEN @ ELSE JsArray({}),
                        !.lastUpdated = IF @ = "none" THEN "now" ELSE @],
          modified |-> \/ ~isArray(entry.knownCards)
                       \/ ~isArray(entry.unknownCards)
                       \/ entry.lastUpdated = "none"]

\* The body of the loop over progress.studySets: a missing entry is
\* created; in an entry that is there, values that are no arrays are
\* replaced by [] and a missing lastUpdated is added.  On a number the
\* assignments have no effect, and the entry still counts as modified.
migrateStudySet(entry) ==
    IF entry.kind = "missing"
    THEN [entry |-> [kind |-> "object", knownCards |-> JsArray({}),
                     unknownCards |-> JsArray({}), lastUpdated |-> "now"],
          modified |-> TRUE]
    ELSE IF entry.kind = "number"
    THEN [entry |-> entry, modified |-> TRUE]
    ELSE [entry |-> [entry EXCEPT
                        !.knownCards = IF isArray(@) THEN @ ELSE JsArray({}),
                        !.unknownCards = IF isArray(@) THEN @ ELSE JsArray({}),
                        !.lastUpdated = IF @ = "none" THEN "now" ELSE @],
          modified |-> \/ ~isArray(entry.knownCards)
                       \/ ~isArray(entry.unknownCards)
                       \/ entry.lastUpdated = "none"]

\* migrateFlashcardProgress on the user: the document it writes and its
\* counters.
migrateFlashcardProgress(u) ==
    LET results == [id \in StudySets |->
                       IF id \in u.listed THEN migrateStudySet(u.entries[id])
                       ELSE [entry |-> u.entries[id], modified |-> FALSE]]
        studySetsModified == Cardinality({id \in StudySets : results[id].modified})
    IN  [user |-> [u EXCEPT !.hasFlashcardProgress = TRUE,
                            !.entries = [id \in StudySets |-> results[id].entry]],
         usersModified |-> IF ~u.hasFlashcardProgress \/ studySetsModified > 0
                           THEN 1 ELSE 0,
         studySetsModified |-> studySetsModified]

\* validateMigration on the user as read back from the file.  In last,
\* ranOk tells that the latest migration completed, afterSuccess that a
\* migration started from a file left by a completed and validated run.
validateMigration(u) ==
    /\ u.hasFlashcardProgress
    /\ \A id \in u.listed :
          /\ u.entries[id].kind # "missing"
          /\ isArray(u.entries[id].knownCards)
          /\ isArray(u.entries[id].unknownCards)

NoRun ==
    [op |-> "none", status |-> "none", runs |-> 0, ranOk |-> FALSE,
     afterSuccess |-> FALSE,
     usersModified |-> 0, studySetsModified |-> 0, changed |-> FALSE]

InitMigrate ==
    /\ \E listed \in SUBSET StudySets, hasFlashcardProgress \in BOOLEAN,
          entries \in [StudySets -> {MissingEntry, NumberEntry} \cup ObjectEntries] :
          /\ ~hasFlashcardProgress => \A id \in StudySets : entries[id] = MissingEntry
          /\ entries["set2"].kind = "object" =>
                /\ entries["set2"].knownCards.kind \in {"missing", "array"}
                /\ entries["set2"].unknownCards.kind \in {"missing", "array"}
          /\ users = [parses |-> TRUE, listed |-> listed,
                      hasFlashcardProgress |-> hasFlashcardProgress,
                      entries |-> entries]
    /\ sessions = <<>>
    /\ last = NoRun
    /\ card = NoCards

\* node migrate-flashcard-progress.js, first half: the migration reads the
\* file, makes the backup, migrates, and writes the file.
RunMigration ==
    /\ users.parses
    /\ last.runs < MaxRuns
    /\ LET run == migrateFlashcardProgress(users)
       IN  /\ users' = run.user
           /\ last' = [op |-> "migrate", status |-> "migrated",
                       runs |-> last.runs + 1,
                       ranOk |-> TRUE,
                       afterSuccess |-> /\ last.op = "validate"
                                        /\ last.status = "valid"
                                        /\ last.ranOk,
                       usersModified |-> run.usersModified,
                       studySetsModified |-> run.studySetsModified,
                       changed |-> run.user # users]
    /\ UNCHANGED <<sessions, card>>

\* The write of the migrated file throws: the backup is copied back, or
\* that copy fails too and the file stays cut short.
RunMigrationFails ==
    /\ users.parses
    /\ last.runs < MaxRuns
    /\ \E restored \in BOOLEAN : users' = saveUsersFails(users, ~restored)
    /\ last' = [NoRun EXCEPT !.op = "migrate", !.status = "failed",
                             !.runs = last.runs + 1]
    /\ UNCHANGED <<sessions, card>>

\* Second half of the run, or node migrate-flashcard-progress.js --validate.
ValidateMigration ==
    /\ users.parses
    /\ last.op # "validate"
    /\ last' = [last EXCEPT !.op = "validate",
                            !.status = IF validateMigration(users)
                                       THEN "valid" ELSE "invalid"]
    /\ UNCHANGED <<users, sessions, card>>

NextMigrate == RunMigration \/ RunMigrationFails \/ ValidateMigration

SpecMigrate == InitMigrate /\ [][NextMigrate]_vars

\* A value is there when the entry is an object that has it.
ValueExists(entry, v) == entry.kind = "object" /\ v.kind # "missing"

\* C18: a knownCards or unknownCards value that exists before a run of the
\* migration is there with the same content after it, and so is an
\* existing lastUpdated: the run only adds what is missing.
MigrationNonDestructive ==
    [][(last'.op = "migrate" /\ last'.status = "migrated") =>
          \A id \in StudySets :
              LET before == users.entries[id]
                  after  == users'.entries[id]
              IN  /\ ValueExists(before, before.knownCards) =>
                        after.knownCards = before.knownCards
                  /\ ValueExists(before, before.unknownCards) =>
                        after.unknownCards = before.unknownCards
                  /\ before.lastUpdated # "none" =>
                        after.lastUpdated = before.lastUpdated]_vars

\* The part of C18 that holds: arrays and existing time stamps are kept.
MigrationKeepsArrays ==
    [][(last'.op = "migrate" /\ last'.status = "migrated") =>
          \A id \in StudySets :
              LET before == users.entries[id]
                  after  == users'.entries[id]
              IN  /\ isArray(before.knownCards) =>
                        after.knownCards = before.knownCards
                  /\ isArray(before.unknownCards) =>
                        after.unknownCards = before.unknownCards
                  /\ before.lastUpdated # "none" =>
                        after.lastUpdated = before.lastUpdated]_vars

\* Every study set listed for the user has an entry with two arrays.
ListedHaveArrays ==
    /\ users.hasFlashcardProgress
    /\ \A id \in users.listed :
          /\ users.entries[id].kind = "object"
          /\ users.entries[id].knownCards.kind = "array"
          /\ users.entries[id].unknownCards.kind = "array"

ElapsedMs == {0, 400, 999, 1000, 1999, 5000, 12000, 25000, 31000}

QualityCards == {"A", "B"}

\* handleSwipe's responseTime: whole seconds since cardStartTime when the
\* card has a start time, 0 otherwise.
swipeResponseTime(hasCardStartTime, elapsedMs) ==
    IF hasCardStartTime THEN elapsedMs \div 1000 ELSE 0

\* The stored progress both cards start from: never reviewed, or reviewed
\* once with "Don't know" (ease factor 2.3, below the upper bound).
QualityStarts ==
    {DefaultCardProgress, updateCardProgress(DefaultCardProgress, FALSE, 5, 0)}

NotAnswered == [answered |-> FALSE, timed |-> FALSE, elapsedMs |-> 0,
                responseTime |-> 0, quality5 |-> 0]

InitQuality ==
    /\ users = NewUserRecord({}, {})
    /\ sessions = <<>>
    /\ \E start \in QualityStarts :
          card = [progress |-> [id \in QualityCards |-> start], today |-> 0]
    /\ last = [id \in QualityCards |-> NotAnswered]

\* "Know it" on a card that has not been answered yet.
SwipeKnown(id) ==
    /\ ~last[id].answered
    /\ \E hasCardStartTime \in BOOLEAN, elapsedMs \in ElapsedMs :
          LET responseTime == swipeResponseTime(hasCardStartTime, elapsedMs)
          IN  /\ card' = [card EXCEPT !.progress[id] =
                             updateCardProgress(@, TRUE, responseTime, card.today)]
              /\ last' = [last EXCEPT ![id] =
                             [answered     |-> TRUE,
                              timed        |-> hasCardStartTime,
                              elapsedMs    |-> elapsedMs,
                              responseTime |-> responseTime,
                              quality5     |-> responseQuality5(responseTime)]]
    /\ UNCHANGED <<users, sessions>>

NextQuality == \E id \in QualityCards : SwipeKnown(id)

SpecQuality == InitQuality /\ [][NextQuality]_vars

\* Five times clamp(5 - responseTime / 5, 0, 5).
ClampedQuality5(responseTime) == Max(0, Min(25, 25 - responseTime))

\* Card x was answered no slower than card y, both with a measured time.
AnsweredNoSlower(x, y) ==
    /\ last[x].answered /\ last[x].timed
    /\ last[y].answered /\ last[y].timed
    /\ last[x].elapsedMs <= last[y].elapsedMs

\* C21: the quality of a correct review with a measured response time is
\* clamp(5 - responseTime / 5, 0, 5); of two such reviews from the same
\* stored progress the faster one gets no lower quality and no lower ease
\* factor; the default quality 3 is used only without a measured time.
FasterNeverWorse ==
    /\ \A id \in QualityCards :
          (last[id].answered /\ last[id].timed) =>
              last[id].quality5 = ClampedQuality5(last[id].responseTime)
    /\ \A x, y \in QualityCards :
          AnsweredNoSlower(x, y) =>
              /\ last[x].quality5 >= last[y].quality5
              /\ card.progress[x].easeFactor >= card.progress[y].easeFactor

\* What holds: the same for answers given at least one second after the
\* card was shown.
FasterNeverWorseFromOneSecond ==
    /\ \A id \in QualityCards :
          (last[id].answered /\ last[id].timed /\ last[id].elapsedMs >= 1000) =>
              last[id].quality5 = ClampedQuality5(last[id].responseTime)
    /\ \A x, y \in QualityCards :
          (AnsweredNoSlower(x, y) /\ last[x].elapsedMs >= 1000) =>
              /\ last[x].quality5 >= last[y].quality5
              /\ card.progress[x].easeFactor >= card.progress[y].easeFactor

\* ---------------------------------------------------------------------
\* Difficulty of one card over a long run of reviews (updateCardProgress).
\* ---------------------------------------------------------------------

MaxDifficultyReviews == 8

DifficultyResponseTimes == {0, 5}

\* A swipe on the card, as Review, over the longer run.
ReviewDifficulty ==
    /\ TheCard.timesReviewed < MaxDifficultyReviews
    /\ \E isCorrect \in BOOLEAN, responseTime \in DifficultyResponseTimes :
          /\ card' = [card EXCEPT !.progress["A"] =
                         updateCardProgress(@, isCorrect, responseTime, card.today)]
          /\ last' = [op |-> "review", isCorrect |-> isCorrect,
                      before |-> TheCard]
    /\ UNCHANGED <<users, sessions>>

NextDifficulty == ReviewDifficulty \/ DayPasses

SpecDifficulty == InitSched /\ [][NextDifficulty]_vars

\* C22: the difficulty (in tenths) stays within 0..10; a correct review
\* lowers it by one tenth, not below 0, exactly when the streak of correct
\* answers counting this one is at least 3 and leaves it otherwise; an
\* incorrect review raises it by two tenths, not above 10.
DifficultyBounds ==
    /\ TheCard.difficulty \in 0..10
    /\ last.op = "review" =>
          TheCard.difficulty =
              IF last.isCorrect
              THEN IF last.before.consecutiveCorrect + 1 >= 3
                   THEN Max(0, last.before.difficulty - 1)
                   ELSE last.before.difficulty
              ELSE Min(10, last.before.difficulty + 2)

\* A correct review in a streak on a card whose difficulty is already 0.
DifficultyBoundsWitness ==
    /\ last.op = "review"
    /\ last.isCorrect
    /\ last.before.difficulty = 0
    /\ last.before.consecutiveCorrect >= 3
    /\ TheCard.difficulty = 0

\* ---------------------------------------------------------------------
\* Due dates: reviews of one card, midnights, and getCardsForReview on
\* the stored progress (updateCardProgress, getCardsForReview).
\* ---------------------------------------------------------------------

\* flashcardStorage.getCardsForReview(studySetId) on the stored progress.
ListForReview ==
    /\ card' = card
    /\ last' = [op        |-> "list",
                isCorrect |-> last.isCorrect,
                before    |-> last.before,
                result    |-> getCardsForReview(card.progress, <<"A">>,
                                                card.today, NoLimit)]
    /\ UNCHANGED <<users, sessions>>

NextDue == Review \/ DayPasses \/ ListForReview

SpecDue == InitSched /\ [][NextDue]_vars

\* C23: after a review the card's lastReviewed is the review day and its
\* nextReview is the review day plus the newly computed interval, which
\* is at least one day; getCardsForReview does not return a reviewed card
\* before that many days have passed since its last review.
ReviewSchedulesNext ==
    /\ last.op = "review" =>
          /\ TheCard.lastReviewed = card.today
          /\ TheCard.interval >= 1
          /\ TheCard.nextReview = card.today + TheCard.interval
    /\ (/\ last.op = "list"
        /\ TheCard.timesReviewed > 0
        /\ card.today < TheCard.lastReviewed + TheCard.interval) =>
          \A i \in 1..Len(last.result) : last.result[i] # "A"

\* The card was reviewed on day 1 with "Don't know" (interval 1) and the
\* review list is asked for on the same day: it is empty.
ReviewSchedulesNextWitness ==
    /\ last.op = "list"
    /\ card.today = 1
    /\ TheCard.lastReviewed = 1
    /\ TheCard.interval = 1
    /\ TheCard.nextReview = 2
    /\ last.result = <<>>

\* ---------------------------------------------------------------------
\* Two progress requests in flight at once: each loads users.json, updates
\* its user in the loaded document and saves the whole document
\* (loadUsers, POST /api/auth/progress, saveUsers).
\* ---------------------------------------------------------------------

UserIds == {"alice", "bob"}

RequestIds == {"r1", "r2"}

ConcurrentBodies ==
    [sessionStats        : {[score |-> 50, totalTime |-> 30],
                            [score |-> 100, totalTime |-> 30]},
     hasFlashcardUpdates : {TRUE},
     flashcardUpdates    : {[EmptyUpdates EXCEPT !.knownAdd = <<"A">>],
                            [EmptyUpdates EXCEPT !.unknownAdd = <<"B">>]}]

\* users.json before the two requests.
InitialUsers == [id \in UserIds |-> NewUserRecord({}, {})]

\* The document a request holds in memory after loadUsers and the update
\* of its user.
handledDocument(document, userId, body) ==
    [document EXCEPT ![userId] = progressPOST(@, body, TRUE)]

InitConcurrent ==
    /\ users = InitialUsers
    /\ \E userIds \in [RequestIds -> UserIds],
          bodies \in [RequestIds -> ConcurrentBodies] :
          sessions = [r \in RequestIds |->
                         [pc     |-> "start",
                          userId |-> userIds[r],
                          body   |-> bodies[r],
                          users  |-> InitialUsers]]
    /\ last = [op |-> "none", overlap |-> FALSE]
    /\ card = NoCards

\* loadUsers resolves and the handler updates its user in the loaded
\* document, up to the call of saveUsers.
LoadUsers(r) ==
    /\ sessions[r].pc = "start"
    /\ sessions' = [sessions EXCEPT
           ![r].pc = "loaded",
           ![r].users = handledDocument(users, sessions[r].userId, sessions[r].body)]
    /\ last' = [op      |-> "load",
                overlap |-> last.overlap
                            \/ \E o \in RequestIds \ {r} : sessions[o].pc = "loaded"]
    /\ UNCHANGED <<users, card>>

\* saveUsers writes the request's document over users.json; 200.
SaveUsers(r) ==
    /\ sessions[r].pc = "loaded"
    /\ users' = sessions[r].users
    /\ sessions' = [sessions EXCEPT ![r].pc = "saved"]
    /\ last' = [last EXCEPT !.op = "save"]
    /\ UNCHANGED card

NextConcurrent ==
    \/ \E r \in RequestIds : LoadUsers(r)
    \/ \E r \in RequestIds : SaveUsers(r)

SpecConcurrent == InitConcurrent /\ [][NextConcurrent]_vars

BothSaved == \A r \in RequestIds : sessions[r].pc = "saved"

\* users.json after request `first` and then request `second`, one after
\* the other.
OneAfterTheOther(first, second) ==
    handledDocument(handledDocument(InitialUsers, sessions[first].userId,
                                    sessions[first].body),
                    sessions[second].userId, sessions[second].body)

HoldsBothEffects ==
    /\ users \in {OneAfterTheOther("r1", "r2"), OneAfterTheOther("r2", "r1")}
    /\ \A r \in RequestIds : users[sessions[r].userId].totalSessions >= 1

\* C26: however the load and save steps of two progress requests
\* interleave, once both have succeeded users.json holds the effect of
\* both, as if one had run after the other; a request of one user does not
\* drop the update of the other user's record.
NoLostUpdate == BothSaved => HoldsBothEffects

\* What holds: two requests of which the second loads after the first has
\* saved leave the effect of both.
NoLostUpdateWithoutOverlap == (BothSaved /\ ~last.overlap) => HoldsBothEffects

\* ---------------------------------------------------------------------
\* A session whose delta is computed against the user record the client
\* cached, while the persisted record is changed from elsewhere (another
\* device's session, a reset) before the delta is applied.
\* ---------------------------------------------------------------------

MaxOtherUpdates == 1

ClassifiedAnswers == {"known", "unknown"}

InitStale ==
    /\ \E K \in SUBSET Cards, U \in SUBSET Cards, S \in SUBSET Cards :
          /\ K \cap U = {}
          /\ S # {}
          /\ \E a \in [1..Cardinality(S) -> ClassifiedAnswers] :
                /\ users = NewUserRecord(K, U)
                /\ sessions =
                      [s \in {"s1"} |->
                          [pc               |-> "answered",
                           questions        |-> MakeQuestions(<<a, OrderedIds(S)>>),
                           previousKnown    |-> K,
                           previousUnknown  |-> U,
                           flashcardUpdates |-> EmptyUpdates]]
    /\ last = [op |-> "init", others |-> 0, agreed |-> TRUE]
    /\ card = NoCards

\* Another device completes a session of the same user and study set; its
\* delta is computed against the record as persisted now.
OtherSessionPost ==
    /\ last.others < MaxOtherUpdates
    /\ sessions["s1"].pc # "posted"
    /\ \E S \in SUBSET Cards :
          /\ S # {}
          /\ \E a \in [1..Cardinality(S) -> ClassifiedAnswers] :
                LET questions == MakeQuestions(<<a, OrderedIds(S)>>)
                    body == [sessionStats |->
                                 [score |-> calculateSessionStats(questions).score,
                                  totalTime |-> 0],
                             hasFlashcardUpdates |-> TRUE,
                             flashcardUpdates |->
                                 handleCompleteSession(questions, users.knownCards,
                                                       users.unknownCards)]
                IN  users' = progressPOST(users, body, TRUE)
    /\ last' = [last EXCEPT !.op = "other", !.others = @ + 1]
    /\ UNCHANGED <<sessions, card>>

\* Reset Progress on another device, against the record as persisted now.
OtherReset ==
    /\ last.others < MaxOtherUpdates
    /\ sessions["s1"].pc # "posted"
    /\ users' = progressPOST(users,
                             resetProgressBody(users.knownCards, users.unknownCards),
                             TRUE)
    /\ last' = [last EXCEPT !.op = "reset", !.others = @ + 1]
    /\ UNCHANGED <<sessions, card>>

\* handleCompleteSession against the cached record.
StaleCompute(s) ==
    /\ sessions[s].pc = "answered"
    /\ sessions' = [sessions EXCEPT
           ![s].pc = "computed",
           ![s].flashcardUpdates =
               handleCompleteSession(sessions[s].questions, sessions[s].previousKnown,
                                     sessions[s].previousUnknown)]
    /\ last' = [last EXCEPT !.op = "compute"]
    /\ UNCHANGED <<users, card>>

\* The progress endpoint applies the delta to the persisted record; 200.
StalePost(s) ==
    /\ sessions[s].pc = "computed"
    /\ LET me   == sessions[s]
           body == [sessionStats |->
                        [score |-> calculateSessionStats(me.questions).score,
                         totalTime |-> 0],
                    hasFlashcardUpdates |-> TRUE,
                    flashcardUpdates |-> me.flashcardUpdates]
       IN  /\ users' = progressPOST(users, body, TRUE)
           /\ last' = [last EXCEPT
                  !.op = "post",
                  !.agreed = \A i \in 1..Len(me.questions) :
                      LET id == me.questions[i].questionId IN
                      /\ id \in me.previousKnown <=> id \in users.knownCards
                      /\ id \in me.previousUnknown <=> id \in users.unknownCards]
    /\ sessions' = [sessions EXCEPT ![s].pc = "posted"]
    /\ UNCHANGED card

NextStale ==
    \/ OtherSessionPost
    \/ OtherReset
    \/ \E s \in DOMAIN sessions : StaleCompute(s)
    \/ \E s \in DOMAIN sessions : StalePost(s)

SpecStale == InitStale /\ [][NextStale]_vars

\* Every card answered in the session is in the persisted set of its
\* answer and not in the other one.
AnsweredAsClassified(me) ==
    \A i \in 1..Len(me.questions) :
        LET q == me.questions[i] IN
        /\ q.userAnswer = "known" =>
              q.questionId \in users.knownCards /\ q.questionId \notin users.unknownCards
        /\ q.userAnswer = "unknown" =>
              q.questionId \in users.unknownCards /\ q.questionId \notin users.knownCards

\* C27: also when the cached known/unknown sets differ from the persisted
\* ones at the time the delta is applied, after the accepted progress
\* update every card answered in the session is in the persisted set
\* matching its classification.
StaleBaselineMatches ==
    \A s \in DOMAIN sessions :
        sessions[s].pc = "posted" => AnsweredAsClassified(sessions[s])

\* What holds: the same when the cached and the persisted sets agree on the
\* session's cards at the time the delta is applied.
AgreedBaselineMatches ==
    \A s \in DOMAIN sessions :
        (sessions[s].pc = "posted" /\ last.agreed) => AnsweredAsClassified(sessions[s])

\* ---------------------------------------------------------------------
\* The statistics of a study-set record over the sessions posted to the
\* progress endpoint; `sessions` keeps the sessionStats of the accepted
\* requests in order.
\* ---------------------------------------------------------------------

\* sessionStats.totalTime as a request may carry it: the endpoint adds
\* whatever number the body holds.
PostedTimes == {-5, 0, 30}

InitHistory ==
    /\ users = NewUserRecord({}, {})
    /\ sessions = <<>>
    /\ last = [op |-> "none", before |-> StatsOf(users)]
    /\ card = NoCards

\* An accepted progress request without flashcardUpdates.
PostSession ==
    /\ users.totalSessions < MaxSessions
    /\ \E score \in Scores, totalTime \in PostedTimes :
          LET body == [sessionStats |-> [score |-> score, totalTime |-> totalTime],
                       hasFlashcardUpdates |-> FALSE,
                       flashcardUpdates |-> EmptyUpdates]
          IN  /\ users' = progressPOST(users, body, TRUE)
              /\ sessions' = Append(sessions, body.sessionStats)
              /\ last' = [op |-> "progress", before |-> StatsOf(users)]
    /\ UNCHANGED card

SpecHistory == InitHistory /\ [][PostSession]_vars

\* The highest score posted so far, 0 for a record without sessions.
HighestScore ==
    LET scores == {sessions[i].score : i \in 1..Len(sessions)} \cup {0}
    IN  CHOOSE best \in scores : \A score \in scores : score <= best

ScoresInOrder ==
    /\ 0 <= users.averageScore
    /\ users.averageScore <= users.bestScore
    /\ users.bestScore <= 100
    /\ users.bestScore = HighestScore
    /\ last.op = "progress" => users.bestScore >= last.before.bestScore

\* C28: after any sequence of accepted updates with scores in 0..100,
\* 0 <= averageScore <= bestScore <= 100, bestScore is the highest score
\* recorded so far and never decreases, and totalTimeSpent never decreases.
StatsWithinBounds ==
    /\ ScoresInOrder
    /\ last.op = "progress" => users.totalTimeSpent >= last.before.totalTimeSpent

\* C28 as it holds: totalTimeSpent does not decrease with an update whose
\* totalTime is 0 or more.
StatsWithinBoundsNonNegativeTimes ==
    /\ ScoresInOrder
    /\ (last.op = "progress" /\ sessions[Len(sessions)].totalTime >= 0) =>
          users.totalTimeSpent >= last.before.totalTimeSpent

\* Sessions of 100, 0 and 50 points and 30 seconds each: the best score
\* stays 100, the average is 50, the time 90 seconds.
StatsWithinBoundsWitness ==
    /\ Len(sessions) = 3
    /\ sessions[1].score = 100
    /\ sessions[2].score = 0
    /\ sessions[3].score = 50
    /\ users.bestScore = 100
    /\ users.averageScore = 50
    /\ users.totalTimeSpent = 90
    /\ last.before.totalTimeSpent = 60

\* ---------------------------------------------------------------------
\* The progress route as a whole, from the cookie to the response:
\* users.json holds one user, and requests come with or without a session
\* cookie, a user id, a study set id and sessionStats.
\* ---------------------------------------------------------------------

\* The session cookie of a request: absent, without a userId, of the user
\* in users.json, or of a user that is not in users.json.
SessionCookies == {"none", "noUserId", "alice", "ghost"}

RouteRequests ==
    [cookie          : SessionCookies,
     hasStudySetId   : BOOLEAN,
     hasSessionStats : BOOLEAN,
     body            : [sessionStats        : {[score |-> 0, totalTime |-> 0],
                                                [score |-> 100, totalTime |-> 30]},
                        hasFlashcardUpdates : {TRUE},
                        flashcardUpdates    : DeltasUpTo({"A", "B"}, 1)]]

Rejected(document, status) == [status |-> status, users |-> document, saved |-> FALSE]

\* A slip: a user id that is not in the database gets an empty record,
\* which is saved before the 404.
progressRouteCreatesUser(document, request) ==
    IF request.cookie = "none" THEN Rejected(document, 401)
    ELSE IF request.cookie = "noUserId" THEN Rejected(document, 401)
    ELSE IF ~request.hasStudySetId \/ ~request.hasSessionStats
    THEN Rejected(document, 400)
    ELSE IF request.cookie \notin DOMAIN document
    THEN [status |-> 404,
          users  |-> [id \in DOMAIN document \cup {request.cookie} |->
                         IF id \in DOMAIN document THEN document[id]
                         ELSE NewUserRecord({}, {})],
          saved  |-> TRUE]
    ELSE [status |-> 200,
          users  |-> [document EXCEPT ![request.cookie] =
                         progressPOST(@, request.body, TRUE)],
          saved  |-> TRUE]

\* POST /api/auth/progress: the response status, users.json afterwards and
\* whether saveUsers was called.
progressRoute(document, request) ==
    IF request.cookie = "none" THEN Rejected(document, 401)
    ELSE IF request.cookie = "noUserId" THEN Rejected(document, 401)
    ELSE IF ~request.hasStudySetId \/ ~request.hasSessionStats
    THEN Rejected(document, 400)
    ELSE IF request.cookie \notin DOMAIN document THEN Rejected(document, 404)
    ELSE [status |-> 200,
          users  |-> [document EXCEPT ![request.cookie] =
                         progressPOST(@, request.body, TRUE)],
          saved  |-> TRUE]

InitRoute ==
    /\ users = [id \in {"alice"} |-> NewUserRecord({}, {})]
    /\ sessions = <<>>
    /\ last = [op |-> "none", status |-> 0, saved |-> FALSE, accepted |-> 0,
               cookie |-> "none"]
    /\ card = NoCards

\* One request to the route.
HandleRequest ==
    /\ \E request \in RouteRequests :
          LET response == progressRoute(users, request)
          IN  /\ response.status = 200 => last.accepted < MaxRequests
              /\ users' = response.users
              /\ last' = [op       |-> "progress",
                          status   |-> response.status,
                          saved    |-> response.saved,
                          accepted |-> IF response.status = 200
                                       THEN last.accepted + 1 ELSE last.accepted,
                          cookie   |-> request.cookie]
    /\ UNCHANGED <<sessions, card>>

SpecRoute == InitRoute /\ [][HandleRequest]_vars

\* C29: a progress request answered 401 (no cookie, no userId), 400 (no
\* studySetId or no sessionStats) or 404 (user not in the database) does
\* not call saveUsers and leaves users.json as it was.
RejectedChangesNothing ==
    [][(last'.op = "progress" /\ last'.status \in {401, 400, 404}) =>
          /\ users' = users
          /\ ~last'.saved]_vars

\* A request of a user that is not in the database, answered 404 after an
\* accepted request had recorded a session of alice.
RejectedChangesNothingWitness ==
    /\ last.op = "progress"
    /\ last.status = 404
    /\ last.cookie = "ghost"
    /\ ~last.saved
    /\ DOMAIN users = {"alice"}
    /\ users["alice"].totalSessions = 1

\* ---------------------------------------------------------------------
\* FlashcardInterface: answers by swipe or button and the timers of the
\* auto-advance.  Time passes in ticks of 50 ms; a timer is the number of
\* ticks left until it fires, and the timers due at a tick fire before the
\* next tick.  handleSwipe runs to its end within one task (the awaited
\* onAnswerQuestion does not wait for anything), so isSubmitting is false
\* again whenever another event or timer is handled.
\* ---------------------------------------------------------------------

TotalCards == 2

MaxSwipes == 3

\* setTimeout delays of handleSwipe in ticks: 800 ms, 150 ms, 100 ms.
AnimationTicks == 16
ChangeTicks == 3
CompleteTicks == 2

NoTimer == [remaining |-> -1, isLastCard |-> FALSE]

CardIndexes == 0..(TotalCards - 1)

InitSwipe ==
    /\ users = NewUserRecord({}, {})
    /\ sessions = [currentCardIndex |-> 0,
                   isSubmitting     |-> FALSE,
                   isAnimating      |-> FALSE,
                   animationTimeout |-> NoTimer,
                   changeTimers     |-> {},
                   completeTimers   |-> {}]
    /\ card = [updateCardProgress |-> [i \in CardIndexes |-> 0],
               answerQuestion     |-> [i \in CardIndexes |-> 0],
               accepted           |-> 0,
               completions        |-> 0]
    /\ last = [op |-> "none", inTransition |-> FALSE]

\* handleSwipe, from a swipe or from the "Know it" / "Don't know" button,
\* while the component is mounted.
Swipe ==
    /\ card.completions = 0
    /\ card.accepted < MaxSwipes
    /\ ~(sessions.isSubmitting \/ sessions.isAnimating)
    /\ LET i == sessions.currentCardIndex
       IN  /\ card' = [card EXCEPT !.updateCardProgress[i] = @ + 1,
                                   !.answerQuestion[i] = @ + 1,
                                   !.accepted = @ + 1]
           /\ sessions' = [sessions EXCEPT
                  !.isAnimating = TRUE,
                  !.animationTimeout =
                      [remaining  |-> AnimationTicks,
                       isLastCard |-> i = TotalCards - 1]]
    /\ last' = [op |-> "swipe",
                inTransition |-> last.inTransition
                                 \/ sessions.changeTimers # {}
                                 \/ sessions.completeTimers # {}]
    /\ UNCHANGED users

TimersPending ==
    \/ sessions.animationTimeout.remaining >= 0
    \/ sessions.changeTimers # {}
    \/ sessions.completeTimers # {}

TimerDue ==
    \/ sessions.animationTimeout.remaining = 0
    \/ \E t \in sessions.changeTimers : t.remaining = 0
    \/ 0 \in sessions.completeTimers

\* 50 ms pass.
Tick ==
    /\ TimersPending
    /\ ~TimerDue
    /\ sessions' = [sessions EXCEPT
           !.animationTimeout = IF @.remaining > 0
                                THEN [@ EXCEPT !.remaining = @ - 1] ELSE @,
           !.changeTimers = {[t EXCEPT !.remaining = @ - 1] : t \in @},
           !.completeTimers = {t - 1 : t \in @}]
    /\ last' = [last EXCEPT !.op = "tick"]
    /\ UNCHANGED <<users, card>>

\* The 800 ms timer: the result has been shown, the change of card begins.
AnimationTimeout ==
    /\ sessions.animationTimeout.remaining = 0
    /\ sessions' = [sessions EXCEPT
           !.isAnimating = FALSE,
           !.animationTimeout = NoTimer,
           !.changeTimers = @ \cup {[remaining  |-> ChangeTicks,
                                     isLastCard |-> sessions.animationTimeout.isLastCard]}]
    /\ last' = [last EXCEPT !.op = "animationTimeout"]
    /\ UNCHANGED <<users, card>>

\* The 150 ms timer: after the last card the completion is scheduled,
\* otherwise the index advances, and the effect on currentCardIndex ends
\* the animation and clears the pending animation timer.
ChangeTimeout ==
    /\ \E t \in sessions.changeTimers :
          /\ t.remaining = 0
          /\ sessions' =
                IF t.isLastCard
                THEN [sessions EXCEPT !.changeTimers = @ \ {t},
                                      !.completeTimers = @ \cup {CompleteTicks}]
                ELSE [sessions EXCEPT !.changeTimers = @ \ {t},
                                      !.currentCardIndex = @ + 1,
                                      !.isAnimating = FALSE,
                                      !.animationTimeout = NoTimer]
    /\ last' = [last EXCEPT !.op = "changeTimeout"]
    /\ UNCHANGED <<users, card>>

\* The 100 ms timer: handleCompleteSession.
CompleteTimeout ==
    /\ 0 \in sessions.completeTimers
    /\ sessions' = [sessions EXCEPT !.completeTimers = @ \ {0}]
    /\ card' = [card EXCEPT !.completions = @ + 1]
    /\ last' = [last EXCEPT !.op = "completeTimeout"]
    /\ UNCHANGED users

NextSwipe == Swipe \/ Tick \/ AnimationTimeout \/ ChangeTimeout \/ CompleteTimeout

SpecSwipe == InitSwipe /\ [][NextSwipe]_vars

OneRecordPerCard ==
    /\ \A i \in CardIndexes :
          /\ card.updateCardProgress[i] <= 1
          /\ card.answerQuestion[i] <= 1
    /\ card.accepted <= sessions.currentCardIndex + 1
    /\ ~TimersPending => card.accepted = sessions.currentCardIndex + card.completions
    /\ card.completions <= 1
    /\ card.completions = 1 =>
          /\ sessions.currentCardIndex = TotalCards - 1
          /\ card.answerQuestion[TotalCards - 1] = 1

\* C30: however swipes and button presses interleave with the pending
\* timers, every presented card is recorded at most once (one
\* updateCardProgress and one answerQuestion call), the card index
\* advances by one per accepted answer, and the session completion is
\* triggered at most once, after the last card.
OneAnswerPerCard == OneRecordPerCard

\* What holds: the same as long as no answer is given between the end of
\* the 800 ms timer and the change of card or the completion.
OneAnswerPerCardOutsideTransition == ~last.inTransition => OneRecordPerCard

====
